---- MODULE Spec2Model ----
(***************************************************************************)
(* InfraMap monitoring core: the reachability poller (PingManager,         *)
(* internal/monitoring/ping.go) and the liveness poller (SSHStatusManager, *)
(* internal/monitoring/ssh_manager.go): their update operations, their     *)
(* background loops, the probe cycles with the bounded fan-out, and the    *)
(* merge of a cycle's results into the result cache.                       *)
(*                                                                         *)
(* Time is the wall clock in whole seconds.  Device ids are numbers (the   *)
(* code only compares them).  A Go map is a function whose DOMAIN is the   *)
(* key set.  The two managers share no field, lock or channel, so a        *)
(* behaviour runs the goroutines of one of them (variable mgr); every      *)
(* property below speaks about one manager at a time.                      *)
(***************************************************************************)
EXTENDS Integers, Sequences, FiniteSets, Bags, TLC

VARIABLES
    now,             \* wall clock (seconds)
    mgr,             \* the manager whose goroutines this behaviour runs
    \* ---- PingManager fields
    settings,        \* m.settings
    nodes,           \* m.nodes
    status,          \* m.status
    updateCh,        \* len(m.updateCh), capacity 1
    mu,              \* m.mu: "free", or "loop" while the loop holds the write lock
    posting,         \* update calls that have unlocked m.mu and not yet called signalUpdate
    \* ---- PingManager.loop locals
    pc,              \* position of the loop goroutine
    ticker,          \* NoTicker or [period, next]
    tickerC,         \* len(ticker.C), capacity 1
    currentInterval,
    afterAt,         \* deadline of time.After(1s) in the disabled wait
    \* ---- runPingCycle locals
    cNodes,          \* nodes (snapshot)
    cStatus,         \* statusSnapshot
    cSettings,       \* settings (snapshot)
    results,         \* results
    idx,             \* position of the range loop over nodes
    probes,          \* bag of live probe goroutines
    sem,             \* len(sem), capacity 8
    \* ---- a caller of GetStatus
    rpc,             \* "idle", "reading", or "copied"/"edited" while the caller holds the map
    got,             \* the map GetStatus returned to it
    \* ---- SSHStatusManager fields, loop and runCheck locals
    sNodes, sStatus, sUpdateCh, sMu, sPosting,
    sPc, sTickerNext, sTickerC,
    scNodes, sResults, sIdx, sProbes, sSem,
    sRpc, sGot,
    \* ---- history
    unseen,          \* an update call has written since the loop last read m.settings
    sUnseen,         \* UpdateNodes has written since runCheck last read m.nodes
    cause,           \* what started the running cycle: "tick", "signal", or "none";
                     \* "woken" from the signal case of the disabled select to the top
    owed,            \* ids whose latest probe failed, in a cycle started by a tick
    \* ---- Server: the board file and the handlers of /api/board
    boardFile,       \* content of s.boardFile, or "absent"
    hpc,             \* position of a saveBoard call: "idle", "write", "done"
    body,            \* the request body it holds
    saved,           \* the status it answered with, or "none"
    atEntry,         \* target set and policy of the poller when the call began (history)
    served,          \* the status and data a serveBoard call answered with, or "none"
    \* ---- Server: the stored settings of one device and the handlers of
    \* ---- /api/device-settings/{id}
    secrets,         \* the record of the id in the SecretStore (exists = FALSE: none)
    gpc,             \* position of a GET: "idle", "detect" (DetectLinkSpeed runs), "done"
    gLocal,          \* the settings the GET holds
    ppc,             \* position of a POST: "idle", "set" (before s.secrets.Set), "done",
                     \* "failed"
    pLocal,          \* the settings the POST holds
    \* ---- LogStore
    lmax,            \* l.max
    items,           \* l.items
    lpc,             \* per caller of Add: "idle", or "built" (entry made, lock not taken)
    entry,           \* per caller of Add: the entry it has built
    built,           \* number of entries built so far (stands for time.Now())
    added,           \* every entry appended so far, in the order of the appends (history)
    listed           \* the limit and the answer of the latest List call

pingVars == <<settings, nodes, status, updateCh, mu, posting, pc, ticker, tickerC,
              currentInterval, afterAt, cNodes, cStatus, cSettings, results, idx,
              probes, sem, rpc, got, unseen, cause, owed>>
sshVars == <<sNodes, sStatus, sUpdateCh, sMu, sPosting, sPc, sTickerNext, sTickerC,
             scNodes, sResults, sIdx, sProbes, sSem, sRpc, sGot, sUnseen>>
boardVars == <<boardFile, hpc, body, saved, atEntry, served>>
devVars == <<secrets, gpc, gLocal, ppc, pLocal>>
logVars == <<lmax, items, lpc, entry, built, added, listed>>
srvVars == <<boardVars, devVars, logVars>>
vars == <<now, mgr, pingVars, sshVars, srvVars>>

(***************************************************************************)
(* Bounds of the model.                                                    *)
(***************************************************************************)
MaxTime == 6         \* horizon of the clock (seconds)
MaxPosting == 1      \* update calls between Unlock and signalUpdate at one time

(***************************************************************************)
(* Program constants.                                                      *)
(***************************************************************************)
DefaultIntervalSec == 30
MinIntervalSec == 5
MaxIntervalSec == 3600
PingPoolSize == 8
SSHPoolSize == 6
SSHIntervalSec == 30
DisabledPollSec == 1
UpdateChCap == 1

NoTicker == [period |-> 0, next |-> 0]
EmptyMap == <<>>

(***************************************************************************)
(* model.Node, model.MonitoringSettings, model.PingResult, model.SSHStatus *)
(***************************************************************************)
Node(id, type, pub, priv, ts, pe, pis, ce) ==
    [ID |-> id, Type |-> type, IPPublic |-> pub, IPPrivate |-> priv,
     IPTailscale |-> ts, PingEnabled |-> pe, PingIntervalSec |-> pis,
     ConnectEnabled |-> ce]

MonitoringSettings(en, iv, show) ==
    [Enabled |-> en, IntervalSec |-> iv, ShowStatus |-> show]

PingResult(online, at, rtt, target, err) ==
    [Online |-> online, LastChecked |-> at, RTTMs |-> rtt, Target |-> target,
     Error |-> err]

SSHStatus(online, at, err) ==
    [Online |-> online, LastChecked |-> at, Error |-> err]

defaultMonitoringSettings == MonitoringSettings(FALSE, DefaultIntervalSec, FALSE)

(***************************************************************************)
(* Pure helpers of ping.go.                                                *)
(***************************************************************************)
\* faulty variant: the range test is missing
sanitizeZeroOnly(s) ==
    IF s.IntervalSec = 0
    THEN [s EXCEPT !.IntervalSec = defaultMonitoringSettings.IntervalSec]
    ELSE s
\* faulty variant: an interval outside the range is moved to the nearest limit
sanitizeClamping(s) ==
    IF s.IntervalSec = 0
    THEN [s EXCEPT !.IntervalSec = defaultMonitoringSettings.IntervalSec]
    ELSE IF s.IntervalSec < MinIntervalSec THEN [s EXCEPT !.IntervalSec = MinIntervalSec]
    ELSE IF s.IntervalSec > MaxIntervalSec THEN [s EXCEPT !.IntervalSec = MaxIntervalSec]
    ELSE s
sanitizeMonitoringSettings(s) ==
    LET s1 == IF s.IntervalSec = 0
              THEN [s EXCEPT !.ShowStatus =
                                IF ~s.Enabled /\ ~s.ShowStatus
                                THEN defaultMonitoringSettings.ShowStatus
                                ELSE s.ShowStatus,
                             !.IntervalSec = defaultMonitoringSettings.IntervalSec]
              ELSE s
    IN  IF s1.IntervalSec < MinIntervalSec \/ s1.IntervalSec > MaxIntervalSec
        THEN [s1 EXCEPT !.IntervalSec = defaultMonitoringSettings.IntervalSec]
        ELSE s1

(***************************************************************************)
(* The client's sanitizeMonitoringSettings (public/js/monitoring.js), on   *)
(* an integer intervalSec: parseInt of the decimal text of an integer is   *)
(* that integer, and of the values here only 0 is falsy for ||.            *)
(***************************************************************************)
monitoringDefaults == [intervalSec |-> 30, showStatus |-> TRUE]
OrElse(a, b) == IF a = 0 THEN b ELSE a
MathMin(a, b) == IF a < b THEN a ELSE b
MathMax(a, b) == IF a > b THEN a ELSE b
clientSanitizeMonitoringSettings(s) ==
    LET interval == MathMax(5, MathMin(3600, OrElse(s.IntervalSec, 0)))
    IN  [intervalSec |-> OrElse(interval, monitoringDefaults.intervalSec),
         showStatus |-> s.ShowStatus]

isPingEnabled(node) ==
    IF node.PingEnabled = "nil" THEN FALSE ELSE node.PingEnabled = "true"

anyPingEnabled(ns) == \E k \in 1..Len(ns) : isPingEnabled(ns[k])

\* monitoring.js: nodes.some((node) => node.type !== "network" && node.pingEnabled === true)
hasAnyPingEnabledNode(ns) ==
    \E k \in 1..Len(ns) : ns[k].Type # "network" /\ ns[k].PingEnabled = "true"

\* faulty variant: the private address comes first
pickTargetPrivateFirst(node) ==
    IF node.IPPrivate # "" THEN node.IPPrivate
    ELSE IF node.IPPublic # "" THEN node.IPPublic
    ELSE IF node.IPTailscale # "" THEN node.IPTailscale
    ELSE ""
\* faulty variant: the overlay address comes first
pickTargetOverlayFirst(node) ==
    IF node.IPTailscale # "" THEN node.IPTailscale
    ELSE IF node.IPPublic # "" THEN node.IPPublic
    ELSE IF node.IPPrivate # "" THEN node.IPPrivate
    ELSE ""
pickTarget(node) ==
    IF node.IPPublic # "" THEN node.IPPublic
    ELSE IF node.IPPrivate # "" THEN node.IPPrivate
    ELSE IF node.IPTailscale # "" THEN node.IPTailscale
    ELSE ""

\* faulty variant: an override outside 5..3600 is moved to the nearest limit
intervalForNodeClamping(node, fallback) ==
    LET i1 == node.PingIntervalSec
        i2 == IF i1 <= 0 THEN fallback
              ELSE IF i1 < MinIntervalSec THEN MinIntervalSec
              ELSE IF i1 > MaxIntervalSec THEN MaxIntervalSec
              ELSE i1
        i3 == IF i2 <= 0 THEN defaultMonitoringSettings.IntervalSec ELSE i2
    IN  IF i3 <= 0 THEN 0 ELSE i3
intervalForNode(node, fallback) ==
    LET i1 == node.PingIntervalSec
        i2 == IF i1 <= 0 THEN fallback ELSE i1
        i3 == IF i2 <= 0 THEN defaultMonitoringSettings.IntervalSec ELSE i2
    IN  IF i3 <= 0 THEN 0 ELSE i3

Ids(ns) == {ns[k].ID : k \in 1..Len(ns)}


\* faulty variant: the value is stored under every key of the map
PutEvery(m, k, v) == [j \in (DOMAIN m) \cup {k} |-> v]
Put(m, k, v) == (k :> v) @@ m
\* faulty variant: the cache is replaced by the results of the cycle
OverwriteAll(m, upd) == upd
Overwrite(m, upd) == upd @@ m
\* faulty variant: nothing is deleted
RestrictNothing(m, keep) == m
Restrict(m, keep) == [k \in (DOMAIN m) \cap keep |-> m[k]]

(***************************************************************************)
(* pingTarget: run is what the ping command did (deadline exceeded, exit   *)
(* status, round-trip time found in its output); start is time.Now() at    *)
(* entry.                                                                  *)
(***************************************************************************)
\* faulty variant: the exit status of the command is looked at before the deadline
pingTargetStatusFirst(target, start, run) ==
    IF ~run.failed
    THEN PingResult(TRUE, start, IF run.rtt > 0 THEN run.rtt ELSE 0, target, "")
    ELSE PingResult(FALSE, start, 0, target,
                    IF run.deadlineExceeded THEN "timeout" ELSE "unreachable")
pingTarget(target, start, run) ==
    IF run.deadlineExceeded
    THEN PingResult(FALSE, start, 0, target, "timeout")
    ELSE PingResult(~run.failed, start, IF run.rtt > 0 THEN run.rtt ELSE 0, target,
                    IF run.failed THEN "unreachable" ELSE "")

CommandRun(dl, failed, rtt) == [deadlineExceeded |-> dl, failed |-> failed, rtt |-> rtt]

\* faulty variant: the synthesized result carries no error text
NoIPResultUnmarked(at) == PingResult(FALSE, at, 0, "", "")
NoIPResult(at) == PingResult(FALSE, at, 0, "", "no ip")

(***************************************************************************)
(* Inputs.                                                                 *)
(***************************************************************************)
\* devices the callers send: an odd id is a host (probed or switched off),
\* an even id is a host without address or a network segment
Pingable(id) == Node(id, "server", "198.51.100.7", "10.0.0.7", "", "true", 2, TRUE)
SwitchedOff(id) == Node(id, "server", "", "10.0.0.7", "", "false", 0, FALSE)
Unaddressed(id) == Node(id, "server", "", "", "", "true", 0, TRUE)
Segment(id) == Node(id, "network", "", "10.0.0.0", "", "true", 0, TRUE)
Overlaid(id) == Node(id, "server", "", "10.0.0.7", "100.64.0.7", "nil", 0, TRUE)
Defaulted(id) == Node(id, "server", "198.51.100.7", "", "", "true", 0, FALSE)
Unconfigured(id) == Node(id, "server", "", "", "100.64.0.7", "nil", 0, FALSE)
Catalogue(id) == IF id % 2 = 1 THEN {Pingable(id), SwitchedOff(id), Unconfigured(id)}
                 ELSE {Unaddressed(id), Segment(id)}

TargetSets == {<<>>, <<Pingable(1)>>, <<Pingable(1), Unaddressed(2)>>, <<SwitchedOff(1), Segment(2)>>}

PolicyInputs == {MonitoringSettings(TRUE, 0, TRUE), MonitoringSettings(FALSE, 5, FALSE)}
Boards == [Nodes : TargetSets, Monitoring : PolicyInputs]
CommandRuns == {CommandRun(FALSE, FALSE, 1), CommandRun(TRUE, TRUE, 0)}

(***************************************************************************)
(* NewPingManager.                                                         *)
(***************************************************************************)
InitPing ==
    /\ settings = defaultMonitoringSettings
    /\ nodes = <<>>
    /\ status = EmptyMap
    /\ updateCh = 0
    /\ mu = "free"
    /\ posting = 0
    /\ pc = "top"
    /\ ticker = NoTicker
    /\ tickerC = 0
    /\ currentInterval = 0
    /\ afterAt = 0
    /\ cNodes = <<>>
    /\ cStatus = EmptyMap
    /\ cSettings = defaultMonitoringSettings
    /\ results = EmptyMap
    /\ idx = 0
    /\ probes = EmptyBag
    /\ sem = 0
    /\ rpc = "idle"
    /\ got = EmptyMap
    /\ unseen = FALSE
    /\ cause = "none"
    /\ owed = {}

(***************************************************************************)
(* The update operations and the readers of PingManager.                   *)
(***************************************************************************)
loopVars == <<pc, ticker, tickerC, currentInterval, afterAt>>
cycleVars == <<cNodes, cStatus, cSettings, results, idx, probes, sem>>
readerVars == <<rpc, got>>

\* m.mu.Lock() goes through: no writer and no reader holds the lock
LockFree == mu = "free" /\ rpc # "reading"
\* faulty variant: a read lock is never waited for
RLockAlways == TRUE
\* m.mu.RLock() goes through: no writer holds the lock
RLockFree == mu = "free"

\* faulty variant: the policy is replaced and the enabled value is left as it was
UpdateFromBoardStale(board) ==
    /\ LockFree
    /\ posting < MaxPosting
    /\ settings' = [sanitizeMonitoringSettings(board.Monitoring)
                        EXCEPT !.Enabled = settings.Enabled]
    /\ nodes' = board.Nodes
    /\ posting' = posting + 1
    /\ UNCHANGED <<now, mgr, srvVars, status, updateCh, mu, loopVars, cycleVars,
                   readerVars, sshVars>>
    /\ unseen' = TRUE
    /\ UNCHANGED <<cause, owed>>
\* UpdateFromBoard up to its m.mu.Unlock(), as any caller runs it
BoardUpdate(board) ==
    /\ LockFree
    /\ posting < MaxPosting
    /\ settings' = [sanitizeMonitoringSettings(board.Monitoring)
                        EXCEPT !.Enabled = anyPingEnabled(board.Nodes)]
    /\ nodes' = board.Nodes
    /\ posting' = posting + 1
    /\ UNCHANGED <<now, mgr, status, updateCh, mu, loopVars, cycleVars, readerVars, sshVars>>
    /\ unseen' = TRUE
    /\ UNCHANGED <<cause, owed>>
\* a call of UpdateFromBoard from outside the handlers of the server
UpdateFromBoard(board) == BoardUpdate(board) /\ UNCHANGED srvVars

\* faulty variant: the results of the devices that left the target set are deleted
UpdateNodesPruning(ns) ==
    /\ LockFree
    /\ posting < MaxPosting
    /\ nodes' = ns
    /\ settings' = [settings EXCEPT !.Enabled = anyPingEnabled(ns)]
    /\ status' = Restrict(status, Ids(ns))
    /\ posting' = posting + 1
    /\ UNCHANGED <<now, mgr, srvVars, updateCh, mu, loopVars, cycleVars, readerVars, sshVars>>
    /\ unseen' = TRUE
    /\ UNCHANGED <<cause, owed>>
UpdateNodes(ns) ==
    /\ LockFree
    /\ posting < MaxPosting
    /\ nodes' = ns
    /\ settings' = [settings EXCEPT !.Enabled = anyPingEnabled(ns)]
    /\ posting' = posting + 1
    /\ UNCHANGED <<now, mgr, srvVars, status, updateCh, mu, loopVars, cycleVars,
                   readerVars, sshVars>>
    /\ unseen' = TRUE
    /\ UNCHANGED <<cause, owed>>

\* faulty variant: the enabled value of the caller is kept
SetSettingsTrusting(s) ==
    /\ LockFree
    /\ posting < MaxPosting
    /\ settings' = sanitizeMonitoringSettings(s)
    /\ posting' = posting + 1
    /\ UNCHANGED <<now, mgr, srvVars, nodes, status, updateCh, mu, loopVars, cycleVars,
                   readerVars,
                   sshVars>>
    /\ unseen' = TRUE
    /\ UNCHANGED <<cause, owed>>
SetSettings(s) ==
    /\ LockFree
    /\ posting < MaxPosting
    /\ settings' = [sanitizeMonitoringSettings(s) EXCEPT !.Enabled = anyPingEnabled(nodes)]
    /\ posting' = posting + 1
    /\ UNCHANGED <<now, mgr, srvVars, nodes, status, updateCh, mu, loopVars, cycleVars,
                   readerVars,
                   sshVars>>
    /\ unseen' = TRUE
    /\ UNCHANGED <<cause, owed>>

\* faulty variant: the send is left out
SendDropped(held, cap) == held
\* faulty variant: every send is stored
SendQueued(held, cap) == held + 1
\* select { case ch <- struct{}{}: default: } on a channel that holds held of cap
TrySend(held, cap) == IF held < cap THEN held + 1 ELSE held

\* the select of signalUpdate: send if the buffer has room, else do nothing
signalUpdate ==
    /\ posting > 0
    /\ posting' = posting - 1
    /\ updateCh' = TrySend(updateCh, UpdateChCap)
    /\ UNCHANGED <<now, mgr, srvVars, settings, nodes, status, mu, loopVars, cycleVars,
                   readerVars,
                   sshVars, unseen, cause, owed>>

GetSettings == settings

\* GetStatus: m.mu.RLock() and the empty copyMap
GetStatus ==
    /\ rpc = "idle"
    /\ RLockFree
    /\ got' = EmptyMap
    /\ rpc' = "reading"
    /\ UNCHANGED <<now, mgr, srvVars, settings, nodes, status, updateCh, mu, posting, loopVars,
                   cycleVars, sshVars, unseen, cause, owed>>

\* one iteration of the range over m.status
GetStatusCopy ==
    /\ rpc = "reading"
    /\ \E key \in (DOMAIN status) \ (DOMAIN got) : got' = Put(got, key, status[key])
    /\ UNCHANGED <<now, mgr, srvVars, settings, nodes, status, updateCh, mu, posting, rpc,
                   loopVars,
                   cycleVars, sshVars, unseen, cause, owed>>

\* the range is over: return copyMap, and the deferred RUnlock
GetStatusReturn ==
    /\ rpc = "reading"
    /\ DOMAIN status \subseteq DOMAIN got
    /\ rpc' = "copied"
    /\ UNCHANGED <<now, mgr, srvVars, settings, nodes, status, updateCh, mu, posting, got,
                   loopVars,
                   cycleVars, sshVars, unseen, cause, owed>>

\* faulty variant: GetStatus hands out the cache itself
ReturnedCache == "m.status"
\* the map object GetStatus returns: the copy it has made
ReturnedMap == "copyMap"

\* what a caller may do to a map it holds: delete a key, or store a value of its own
\* under a key of the map or under a new key
CallerEdits(m, keys, forged) ==
    {Restrict(m, (DOMAIN m) \ {k}) : k \in DOMAIN m}
        \cup {Put(m, k, forged) : k \in (DOMAIN m) \cup keys}

\* the caller changes the map it was given
CallerEdit(keys, forged) ==
    /\ rpc = "copied"
    /\ rpc' = "edited"
    /\ IF ReturnedMap = "copyMap"
       THEN /\ got' \in CallerEdits(got, keys, forged)
            /\ status' = status
       ELSE /\ status' \in CallerEdits(status, keys, forged)
            /\ got' = got
    /\ UNCHANGED <<now, mgr, srvVars, settings, nodes, updateCh, mu, posting, loopVars,
                   cycleVars, sshVars, unseen, cause, owed>>

\* the caller is done with the map it was given
GetStatusDone ==
    /\ rpc \in {"copied", "edited"}
    /\ rpc' = "idle"
    /\ got' = EmptyMap
    /\ UNCHANGED <<now, mgr, srvVars, settings, nodes, status, updateCh, mu, posting, loopVars,
                   cycleVars, sshVars, unseen, cause, owed>>

(***************************************************************************)
(* PingManager.loop.                                                       *)
(***************************************************************************)
callerVars == <<posting, rpc, got>>

\* faulty variant: a ticker, once built, is kept whatever the interval read
LoopTopKeepingTicker ==
    /\ mgr = "ping"
    /\ pc = "top"
    /\ RLockFree
    /\ IF ~settings.Enabled
       THEN /\ ticker' = NoTicker
            /\ tickerC' = 0
            /\ currentInterval' = 0
            /\ afterAt' = now + DisabledPollSec
            /\ pc' = "disabledWait"
       ELSE LET iv == IF settings.IntervalSec <= 0
                      THEN defaultMonitoringSettings.IntervalSec
                      ELSE settings.IntervalSec
            IN  /\ IF ticker = NoTicker
                   THEN /\ ticker' = [period |-> iv, next |-> now + iv]
                        /\ tickerC' = 0
                        /\ currentInterval' = iv
                   ELSE UNCHANGED <<ticker, tickerC, currentInterval>>
                /\ afterAt' = afterAt
                /\ pc' = "armedWait"
    /\ UNCHANGED <<now, mgr, srvVars, settings, nodes, status, updateCh, mu, callerVars,
                   cycleVars,
                   sshVars>>
    /\ unseen' = FALSE
    /\ cause' = "none"
    /\ owed' = owed

\* top of the for: read m.settings, stop or (re)build the ticker, reach a select
LoopTop ==
    /\ mgr = "ping"
    /\ pc = "top"
    /\ RLockFree
    /\ IF ~settings.Enabled
       THEN /\ ticker' = NoTicker
            /\ tickerC' = 0
            /\ currentInterval' = 0
            /\ afterAt' = now + DisabledPollSec
            /\ pc' = "disabledWait"
       ELSE LET iv == IF settings.IntervalSec <= 0
                      THEN defaultMonitoringSettings.IntervalSec
                      ELSE settings.IntervalSec
            IN  /\ IF ticker = NoTicker \/ iv # currentInterval
                   THEN /\ ticker' = [period |-> iv, next |-> now + iv]
                        /\ tickerC' = 0
                        /\ currentInterval' = iv
                   ELSE UNCHANGED <<ticker, tickerC, currentInterval>>
                /\ afterAt' = afterAt
                /\ pc' = "armedWait"
    /\ UNCHANGED <<now, mgr, srvVars, settings, nodes, status, updateCh, mu, callerVars,
                   cycleVars,
                   sshVars>>
    /\ unseen' = FALSE
    /\ cause' = "none"
    /\ owed' = owed

\* case <-m.updateCh of the disabled select
DisabledSignal ==
    /\ mgr = "ping"
    /\ pc = "disabledWait"
    /\ updateCh = 1
    /\ updateCh' = 0
    /\ afterAt' = 0
    /\ pc' = "top"
    /\ cause' = "woken"
    /\ UNCHANGED <<now, mgr, srvVars, settings, nodes, status, mu, callerVars, ticker, tickerC,
                   currentInterval, cycleVars, sshVars, unseen, owed>>

\* case <-time.After(1 * time.Second) of the disabled select
DisabledTimeout ==
    /\ mgr = "ping"
    /\ pc = "disabledWait"
    /\ now >= afterAt
    /\ afterAt' = 0
    /\ pc' = "top"
    /\ UNCHANGED <<now, mgr, srvVars, settings, nodes, status, updateCh, mu, callerVars, ticker,
                   tickerC, currentInterval, cycleVars, sshVars, unseen, cause, owed>>

\* faulty variant: a tick starts a cycle wherever the loop is
ArmedTickAnywhere ==
    /\ mgr = "ping"
    /\ tickerC = 1
    /\ tickerC' = 0
    /\ pc' = "snapNodes"
    /\ cause' = "tick"
    /\ UNCHANGED <<now, mgr, srvVars, settings, nodes, status, updateCh, mu, callerVars, ticker,
                   currentInterval, afterAt, cycleVars, sshVars, unseen, owed>>
\* case <-ticker.C: runPingCycle is called
ArmedTick ==
    /\ mgr = "ping"
    /\ pc = "armedWait"
    /\ tickerC = 1
    /\ tickerC' = 0
    /\ pc' = "snapNodes"
    /\ cause' = "tick"
    /\ UNCHANGED <<now, mgr, srvVars, settings, nodes, status, updateCh, mu, callerVars, ticker,
                   currentInterval, afterAt, cycleVars, sshVars, unseen, owed>>

\* case <-m.updateCh of the armed select
ArmedSignal ==
    /\ mgr = "ping"
    /\ pc = "armedWait"
    /\ updateCh = 1
    /\ updateCh' = 0
    /\ pc' = "isEnabled"
    /\ UNCHANGED <<now, mgr, srvVars, settings, nodes, status, mu, callerVars, ticker, tickerC,
                   currentInterval, afterAt, cycleVars, sshVars, unseen, cause, owed>>

\* if m.isEnabled() { m.runPingCycle() }; continue
IsEnabled ==
    /\ mgr = "ping"
    /\ pc = "isEnabled"
    /\ RLockFree
    /\ pc' = IF settings.Enabled THEN "snapNodes" ELSE "top"
    /\ cause' = IF settings.Enabled THEN "signal" ELSE "none"
    /\ UNCHANGED <<now, mgr, srvVars, settings, nodes, status, updateCh, mu, callerVars, ticker,
                   tickerC, currentInterval, afterAt, cycleVars, sshVars, unseen, owed>>

(***************************************************************************)
(* PingManager.runPingCycle.                                               *)
(***************************************************************************)
sharedVars == <<settings, nodes, status, updateCh, mu>>
timerVars == <<ticker, tickerC, currentInterval, afterAt>>

getNodesSnapshot ==
    /\ mgr = "ping"
    /\ pc = "snapNodes"
    /\ RLockFree
    /\ cNodes' = nodes
    /\ pc' = "snapStatus"
    /\ UNCHANGED <<now, mgr, srvVars, sharedVars, callerVars, timerVars, cStatus, cSettings,
                   results, idx, probes, sem, sshVars, unseen, cause, owed>>

getStatusSnapshot ==
    /\ mgr = "ping"
    /\ pc = "snapStatus"
    /\ RLockFree
    /\ cStatus' = status
    /\ pc' = "snapSettings"
    /\ UNCHANGED <<now, mgr, srvVars, sharedVars, callerVars, timerVars, cNodes, cSettings,
                   results, idx, probes, sem, sshVars, unseen, cause, owed>>

\* faulty variant: the read lock of the last snapshot is kept through the fan-out
SnapSettingsHolding ==
    /\ mgr = "ping"
    /\ pc = "snapSettings"
    /\ RLockFree
    /\ cSettings' = GetSettings
    /\ results' = EmptyMap
    /\ idx' = 1
    /\ pc' = "fanout"
    /\ mu' = "loop"
    /\ UNCHANGED <<now, mgr, srvVars, settings, nodes, status, updateCh, callerVars,
                   timerVars, cNodes,
                   cStatus, probes, sem, sshVars, unseen, cause, owed>>
\* settings := m.GetSettings(), then the locals of the cycle
SnapSettings ==
    /\ mgr = "ping"
    /\ pc = "snapSettings"
    /\ RLockFree
    /\ cSettings' = GetSettings
    /\ results' = EmptyMap
    /\ idx' = 1
    /\ pc' = "fanout"
    /\ UNCHANGED <<now, mgr, srvVars, sharedVars, callerVars, timerVars, cNodes, cStatus,
                   probes, sem, sshVars, unseen, cause, owed>>

\* faulty variant: the type of the node is not looked at
SkippedByFlagOnly(node) == ~isPingEnabled(node)
Skipped(node) == node.Type = "network" \/ ~isPingEnabled(node)

\* faulty variant: the comparison of the throttle test is turned around
ThrottledInverted(node, snapshot, fallback, t) ==
    LET interval == intervalForNode(node, fallback)
    IN  /\ interval > 0
        /\ node.ID \in DOMAIN snapshot
        /\ t - snapshot[node.ID].LastChecked > interval

\* the throttle test of one node at time t
Throttled(node, snapshot, fallback, t) ==
    LET interval == intervalForNode(node, fallback)
    IN  /\ interval > 0
        /\ node.ID \in DOMAIN snapshot
        /\ t - snapshot[node.ID].LastChecked < interval

\* faulty variant: a send on the semaphore channel never blocks
SemUnbounded(held, size) == TRUE
\* sem <- struct{}{} goes through when the channel of capacity size holds fewer
SemHasRoom(held, size) == held < size

Probe(id, target, st, result) ==
    [nodeID |-> id, target |-> target, st |-> st, result |-> result]

\* one iteration of the range loop over nodes
FanOut ==
    /\ mgr = "ping"
    /\ pc = "fanout"
    /\ idx <= Len(cNodes)
    /\ LET node == cNodes[idx]
           target == pickTarget(node)
       IN  IF Skipped(node) \/ Throttled(node, cStatus, cSettings.IntervalSec, now)
           THEN UNCHANGED <<results, probes>>
           ELSE IF target = ""
           THEN /\ results' = Put(results, node.ID, NoIPResult(now))
                /\ probes' = probes
           ELSE /\ probes' = probes (+) SetToBag({Probe(node.ID, target, "queued",
                                                         NoIPResult(0))})
                /\ results' = results
    /\ idx' = idx + 1
    /\ UNCHANGED <<now, mgr, srvVars, sharedVars, callerVars, timerVars, pc, cNodes, cStatus,
                   cSettings, sem, sshVars, unseen, cause, owed>>

\* a probe goroutine: sem <- struct{}{}, and pingTarget takes its start time
ProbeStart(g) ==
    /\ mgr = "ping"
    /\ BagIn(g, probes)
    /\ g.st = "queued"
    /\ SemHasRoom(sem, PingPoolSize)
    /\ sem' = sem + 1
    /\ probes' = (probes (-) SetToBag({g}))
                 (+) SetToBag({[g EXCEPT !.st = "running",
                                         !.result = pingTarget(g.target, now,
                                                        CommandRun(TRUE, TRUE, 0))]})
    /\ UNCHANGED <<now, mgr, srvVars, sharedVars, callerVars, loopVars, cNodes, cStatus,
                   cSettings,
                   results, idx, sshVars, unseen, cause, owed>>

\* faulty variant: the place in the pool is not given back
ProbeReturnKeepingPlace(g, run) ==
    /\ mgr = "ping"
    /\ BagIn(g, probes)
    /\ g.st = "running"
    /\ results' = Put(results, g.nodeID,
                      pingTarget(g.target, g.result.LastChecked, run))
    /\ probes' = probes (-) SetToBag({g})
    /\ owed' = IF cause = "tick" /\ (run.deadlineExceeded \/ run.failed)
               THEN owed \cup {g.nodeID}
               ELSE owed \ {g.nodeID}
    /\ UNCHANGED <<now, mgr, srvVars, sharedVars, callerVars, loopVars, cNodes, cStatus,
                   cSettings,
                   idx, sem, sshVars, unseen, cause>>
\* pingTarget returns, <-sem, results[nodeID] = result under resultsMu, and the
\* deferred wg.Done.  The lines after <-sem touch only the cycle's own results map,
\* which nothing reads before wg.Wait() has returned, so they are one step here.
ProbeReturn(g, run) ==
    /\ mgr = "ping"
    /\ BagIn(g, probes)
    /\ g.st = "running"
    /\ sem' = sem - 1
    /\ results' = Put(results, g.nodeID,
                      pingTarget(g.target, g.result.LastChecked, run))
    /\ probes' = probes (-) SetToBag({g})
    /\ owed' = IF cause = "tick" /\ (run.deadlineExceeded \/ run.failed)
               THEN owed \cup {g.nodeID}
               ELSE owed \ {g.nodeID}
    /\ UNCHANGED <<now, mgr, srvVars, sharedVars, callerVars, loopVars, cNodes, cStatus,
                   cSettings,
                   idx, sshVars, unseen, cause>>

\* faulty variant: the cycle does not wait for its probes
WaitSkipped == TRUE
\* wg.Wait() returns when every probe goroutine has called Done
WaitDone == probes = EmptyBag

\* wg.Wait(); m.mu.Lock()
MergeLock ==
    /\ mgr = "ping"
    /\ pc = "fanout"
    /\ idx > Len(cNodes)
    /\ WaitDone
    /\ LockFree
    /\ mu' = "loop"
    /\ pc' = "mergeWrite"
    /\ UNCHANGED <<now, mgr, srvVars, settings, nodes, status, updateCh, callerVars, timerVars,
                   cycleVars, sshVars, unseen, cause, owed>>

\* for id, res := range results { m.status[id] = res }
MergeWrite ==
    /\ mgr = "ping"
    /\ pc = "mergeWrite"
    /\ status' = Overwrite(status, results)
    /\ pc' = "mergePrune"
    /\ UNCHANGED <<now, mgr, srvVars, settings, nodes, updateCh, mu, callerVars, timerVars,
                   cycleVars, sshVars, unseen, cause, owed>>

\* faulty variant: the entries of the devices the cycle passed over are deleted too
MergePrunePassedOver ==
    /\ mgr = "ping"
    /\ pc = "mergePrune"
    /\ status' = Restrict(status, {cNodes[k].ID : k \in {j \in 1..Len(cNodes) :
                                                            ~Skipped(cNodes[j])}})
    /\ mu' = "free"
    /\ pc' = "return"
    /\ UNCHANGED <<now, mgr, srvVars, settings, nodes, updateCh, callerVars, timerVars,
                   cycleVars, sshVars, unseen, cause, owed>>
\* the delete loop, then m.mu.Unlock()
MergePrune ==
    /\ mgr = "ping"
    /\ pc = "mergePrune"
    /\ status' = Restrict(status, Ids(cNodes))
    /\ mu' = "free"
    /\ pc' = "return"
    /\ UNCHANGED <<now, mgr, srvVars, settings, nodes, updateCh, callerVars, timerVars,
                   cycleVars, sshVars, unseen, cause, owed>>

\* runPingCycle returns to the loop
CycleReturn ==
    /\ mgr = "ping"
    /\ pc = "return"
    /\ pc' = "top"
    /\ cNodes' = <<>>
    /\ cStatus' = EmptyMap
    /\ cSettings' = defaultMonitoringSettings
    /\ results' = EmptyMap
    /\ idx' = 0
    /\ cause' = "none"
    /\ UNCHANGED <<now, mgr, srvVars, sharedVars, callerVars, timerVars, probes, sem,
                   sshVars, unseen,
                   owed>>

(***************************************************************************)
(* SSHStatusManager: UpdateNodes, GetStatus, signalUpdate.                 *)
(***************************************************************************)
sSharedVars == <<sNodes, sStatus, sUpdateCh, sMu>>
sCallerVars == <<sPosting, sRpc, sGot>>
sLoopVars == <<sPc, sTickerNext, sTickerC>>
sCycleVars == <<scNodes, sResults, sIdx, sProbes, sSem>>

InitSSH ==
    /\ sNodes = <<>>
    /\ sStatus = EmptyMap
    /\ sUpdateCh = 0
    /\ sMu = "free"
    /\ sPosting = 0
    /\ sPc = "select"
    /\ sTickerNext = SSHIntervalSec
    /\ sTickerC = 0
    /\ scNodes = <<>>
    /\ sResults = EmptyMap
    /\ sIdx = 0
    /\ sProbes = EmptyBag
    /\ sSem = 0
    /\ sRpc = "idle"
    /\ sGot = EmptyMap
    /\ sUnseen = FALSE

SSHLockFree == sMu = "free" /\ sRpc # "reading"
SSHRLockFree == sMu = "free"

SSHUpdateNodes(ns) ==
    /\ SSHLockFree
    /\ sPosting < MaxPosting
    /\ sNodes' = ns
    /\ sPosting' = sPosting + 1
    /\ sUnseen' = TRUE
    /\ UNCHANGED <<now, mgr, srvVars, pingVars, sStatus, sUpdateCh, sMu, sRpc, sGot, sLoopVars,
                   sCycleVars>>

SSHsignalUpdate ==
    /\ sPosting > 0
    /\ sPosting' = sPosting - 1
    /\ sUpdateCh' = TrySend(sUpdateCh, UpdateChCap)
    /\ UNCHANGED <<now, mgr, srvVars, pingVars, sUnseen, sNodes, sStatus, sMu, sRpc, sGot,
                   sLoopVars,
                   sCycleVars>>

\* GetStatus: m.mu.RLock() and the empty copyMap
SSHGetStatus ==
    /\ sRpc = "idle"
    /\ SSHRLockFree
    /\ sGot' = EmptyMap
    /\ sRpc' = "reading"
    /\ UNCHANGED <<now, mgr, srvVars, pingVars, sUnseen, sSharedVars, sPosting, sLoopVars,
                   sCycleVars>>

\* one iteration of the range over m.status
SSHGetStatusCopy ==
    /\ sRpc = "reading"
    /\ \E key \in (DOMAIN sStatus) \ (DOMAIN sGot) : sGot' = Put(sGot, key, sStatus[key])
    /\ UNCHANGED <<now, mgr, srvVars, pingVars, sUnseen, sSharedVars, sPosting, sRpc,
                   sLoopVars, sCycleVars>>

\* the range is over: return copyMap, and the deferred RUnlock
SSHGetStatusReturn ==
    /\ sRpc = "reading"
    /\ DOMAIN sStatus \subseteq DOMAIN sGot
    /\ sRpc' = "copied"
    /\ UNCHANGED <<now, mgr, srvVars, pingVars, sUnseen, sSharedVars, sPosting, sGot,
                   sLoopVars, sCycleVars>>

SSHReturnedMap == "copyMap"

\* the caller changes the map it was given
SSHCallerEdit(keys, forged) ==
    /\ sRpc = "copied"
    /\ sRpc' = "edited"
    /\ IF SSHReturnedMap = "copyMap"
       THEN /\ sGot' \in CallerEdits(sGot, keys, forged)
            /\ sStatus' = sStatus
       ELSE /\ sStatus' \in CallerEdits(sStatus, keys, forged)
            /\ sGot' = sGot
    /\ UNCHANGED <<now, mgr, srvVars, pingVars, sUnseen, sNodes, sUpdateCh, sMu, sPosting,
                   sLoopVars,
                   sCycleVars>>

SSHGetStatusDone ==
    /\ sRpc \in {"copied", "edited"}
    /\ sRpc' = "idle"
    /\ sGot' = EmptyMap
    /\ UNCHANGED <<now, mgr, srvVars, pingVars, sUnseen, sSharedVars, sPosting, sLoopVars,
                   sCycleVars>>

(***************************************************************************)
(* SSHStatusManager.loop and runCheck.                                     *)
(***************************************************************************)
\* case <-ticker.C: m.runCheck()
SSHTick ==
    /\ mgr = "ssh"
    /\ sPc = "select"
    /\ sTickerC = 1
    /\ sTickerC' = 0
    /\ sPc' = "snapNodes"
    /\ UNCHANGED <<now, mgr, srvVars, pingVars, sUnseen, sSharedVars, sCallerVars,
                   sTickerNext, sCycleVars>>

\* faulty variant: the signal stays in the channel when the loop has received it
SSHSignalPeek ==
    /\ mgr = "ssh"
    /\ sPc = "select"
    /\ sUpdateCh = 1
    /\ sPc' = "snapNodes"
    /\ UNCHANGED <<now, mgr, srvVars, pingVars, sUnseen, sNodes, sStatus, sUpdateCh, sMu,
                   sCallerVars,
                   sTickerNext, sTickerC, sCycleVars>>
\* case <-m.updateCh: m.runCheck()
SSHSignal ==
    /\ mgr = "ssh"
    /\ sPc = "select"
    /\ sUpdateCh = 1
    /\ sUpdateCh' = 0
    /\ sPc' = "snapNodes"
    /\ UNCHANGED <<now, mgr, srvVars, pingVars, sUnseen, sNodes, sStatus, sMu, sCallerVars,
                   sTickerNext,
                   sTickerC, sCycleVars>>

\* nodes := m.getNodesSnapshot(), then the locals of the check
SSHgetNodesSnapshot ==
    /\ mgr = "ssh"
    /\ sPc = "snapNodes"
    /\ SSHRLockFree
    /\ scNodes' = sNodes
    /\ sResults' = EmptyMap
    /\ sIdx' = 1
    /\ sPc' = "fanout"
    /\ sUnseen' = FALSE
    /\ UNCHANGED <<now, mgr, srvVars, pingVars, sSharedVars, sCallerVars, sTickerNext, sTickerC,
                   sProbes, sSem>>

\* faulty variant: a device without an address is passed over as well
SSHSkippedNoAddress(node) ==
    node.Type = "network" \/ ~node.ConnectEnabled \/ pickTarget(node) = ""
SSHSkipped(node) == node.Type = "network" \/ ~node.ConnectEnabled

Check(node, st, result) == [node |-> node, st |-> st, result |-> result]

\* one iteration of the range loop over nodes
SSHFanOut ==
    /\ mgr = "ssh"
    /\ sPc = "fanout"
    /\ sIdx <= Len(scNodes)
    /\ LET node == scNodes[sIdx]
       IN  IF SSHSkipped(node)
           THEN sProbes' = sProbes
           ELSE sProbes' = sProbes (+) SetToBag({Check(node, "queued",
                                                       SSHStatus(FALSE, 0, ""))})
    /\ sIdx' = sIdx + 1
    /\ UNCHANGED <<now, mgr, srvVars, pingVars, sUnseen, sSharedVars, sCallerVars,
                   sLoopVars, scNodes,
                   sResults, sSem>>

\* strings.TrimSpace on the strings of the inputs
TrimSpace(str) ==
    IF str = " " THEN "" ELSE IF str = " 203.0.113.5 " THEN "203.0.113.5" ELSE str

\* buildAuth with the password method (the default): the error text, "" for none
buildAuth(devSettings) == IF devSettings.Password = "" THEN "password is empty" ELSE ""

\* what the dial and the handshake with a host end in: the error text, "" for none
Reach(dial, host) ==
    IF host \in DOMAIN dial THEN dial[host] ELSE "dial tcp: no route to host"

\* sshutil.CheckConnection: the error text, "" for none
CheckConnection(devSettings, dial) ==
    LET host == TrimSpace(devSettings.Host)
        user == TrimSpace(devSettings.Username)
    IN  IF host = "" THEN "host is empty"
        ELSE IF user = "" THEN "username is empty"
        ELSE IF buildAuth(devSettings) # "" THEN buildAuth(devSettings)
        ELSE Reach(dial, host)

\* checkNode: look is what provider.Get answered (or that there is no provider), at
\* is time.Now() at entry
checkNode(node, at, look, dial) ==
    IF ~look.provider THEN SSHStatus(FALSE, at, "settings provider missing")
    ELSE IF look.err # "" THEN SSHStatus(FALSE, at, look.err)
    ELSE IF ~look.ok THEN SSHStatus(FALSE, at, "settings not found")
    ELSE LET host == IF look.settings.Host = "" THEN pickTarget(node)
                     ELSE look.settings.Host
             err == CheckConnection([look.settings EXCEPT !.Host = host], dial)
         IN  IF err # "" THEN SSHStatus(FALSE, at, err) ELSE SSHStatus(TRUE, at, "")

Lookup(err, ok, host, user) ==
    [provider |-> TRUE, err |-> err, ok |-> ok,
     settings |-> [Host |-> host, Username |-> user, Password |-> "secret"]]

\* a check goroutine: sem <- struct{}{}, and checkNode takes its time stamp
CheckStart(g) ==
    /\ mgr = "ssh"
    /\ BagIn(g, sProbes)
    /\ g.st = "queued"
    /\ SemHasRoom(sSem, SSHPoolSize)
    /\ sSem' = sSem + 1
    /\ sProbes' = (sProbes (-) SetToBag({g}))
                  (+) SetToBag({[g EXCEPT !.st = "running",
                                          !.result = SSHStatus(FALSE, now, "")]})
    /\ UNCHANGED <<now, mgr, srvVars, pingVars, sUnseen, sSharedVars, sCallerVars,
                   sLoopVars, scNodes,
                   sResults, sIdx>>

\* checkNode returns, <-sem, results[node.ID] = status under resultsMu, and the
\* deferred wg.Done
CheckReturn(g, look, dial) ==
    /\ mgr = "ssh"
    /\ BagIn(g, sProbes)
    /\ g.st = "running"
    /\ sSem' = sSem - 1
    /\ sResults' = Put(sResults, g.node.ID,
                       checkNode(g.node, g.result.LastChecked, look, dial))
    /\ sProbes' = sProbes (-) SetToBag({g})
    /\ UNCHANGED <<now, mgr, srvVars, pingVars, sUnseen, sSharedVars, sCallerVars,
                   sLoopVars, scNodes,
                   sIdx>>

\* faulty variant: runCheck does not wait for its checks
SSHWaitSkipped == TRUE
\* wg.Wait() returns when every check goroutine has called Done
SSHWaitDone == sProbes = EmptyBag

\* wg.Wait(); m.mu.Lock()
SSHMergeLock ==
    /\ mgr = "ssh"
    /\ sPc = "fanout"
    /\ sIdx > Len(scNodes)
    /\ SSHWaitDone
    /\ SSHLockFree
    /\ sMu' = "loop"
    /\ sPc' = "mergeWrite"
    /\ UNCHANGED <<now, mgr, srvVars, pingVars, sUnseen, sNodes, sStatus, sUpdateCh,
                   sCallerVars,
                   sTickerNext, sTickerC, sCycleVars>>

\* for id, res := range results { m.status[id] = res }
SSHMergeWrite ==
    /\ mgr = "ssh"
    /\ sPc = "mergeWrite"
    /\ sStatus' = Overwrite(sStatus, sResults)
    /\ sPc' = "mergePrune"
    /\ UNCHANGED <<now, mgr, srvVars, pingVars, sUnseen, sNodes, sUpdateCh, sMu,
                   sCallerVars, sTickerNext,
                   sTickerC, sCycleVars>>

\* the delete loop, then m.mu.Unlock()
SSHMergePrune ==
    /\ mgr = "ssh"
    /\ sPc = "mergePrune"
    /\ sStatus' = Restrict(sStatus, Ids(scNodes))
    /\ sMu' = "free"
    /\ sPc' = "return"
    /\ UNCHANGED <<now, mgr, srvVars, pingVars, sUnseen, sNodes, sUpdateCh, sCallerVars,
                   sTickerNext,
                   sTickerC, sCycleVars>>

\* runCheck returns to the loop
SSHReturn ==
    /\ mgr = "ssh"
    /\ sPc = "return"
    /\ sPc' = "select"
    /\ scNodes' = <<>>
    /\ sResults' = EmptyMap
    /\ sIdx' = 0
    /\ UNCHANGED <<now, mgr, srvVars, pingVars, sUnseen, sSharedVars, sCallerVars,
                   sTickerNext, sTickerC,
                   sProbes, sSem>>

(***************************************************************************)
(* The clock advances by d seconds.  A ticker whose time has come puts a   *)
(* tick into its channel unless one is waiting there.                      *)
(***************************************************************************)
Tick(d, horizon) ==
    /\ now + d <= horizon
    /\ now' = now + d
    /\ IF ticker # NoTicker /\ now' >= ticker.next
       THEN /\ tickerC' = 1
            /\ ticker' = [ticker EXCEPT !.next = ticker.next + ticker.period]
       ELSE UNCHANGED <<ticker, tickerC>>
    /\ IF now' >= sTickerNext
       THEN /\ sTickerC' = 1
            /\ sTickerNext' = sTickerNext + SSHIntervalSec
       ELSE UNCHANGED <<sTickerNext, sTickerC>>
    /\ UNCHANGED <<mgr, srvVars, sharedVars, callerVars, pc, currentInterval, afterAt,
                   cycleVars,
                   sSharedVars, sCallerVars, sPc, sCycleVars, unseen, sUnseen, cause, owed>>

\* a clock of step d runs to MaxTime, and takes one step at least
Horizon(d) == IF d > MaxTime THEN d ELSE MaxTime

(***************************************************************************)
(* Specifications.  Init is the state after NewPingManager and             *)
(* NewSSHStatusManager.                                                    *)
(***************************************************************************)
(* Server: the handlers of /api/board.  A body or a file content is a      *)
(* board that json.Unmarshal decodes into model.Board, or JSON of another  *)
(* shape ("other": json.Valid accepts it, json.Unmarshal into model.Board  *)
(* fails); a request body that is not JSON at all is refused.              *)
(***************************************************************************)
NoBody(kind) == [kind |-> kind, board |-> [Nodes |-> <<>>, Monitoring |-> defaultMonitoringSettings]]
BoardBody(board) == [kind |-> "board", board |-> board]
OtherJSON == NoBody("other")
Response(code, data) == [code |-> code, data |-> data]

\* the board of writeDefaultBoard as model.Board decodes it
DefaultBoard ==
    [Nodes |-> <<Node(1, "network", "", "", "", "nil", 0, FALSE),
                 Node(2, "server", "203.0.113.10", "10.0.0.10", "", "nil", 0, FALSE),
                 Node(3, "router", "198.51.100.1", "10.0.0.1", "", "nil", 0, FALSE)>>,
     Monitoring |-> MonitoringSettings(FALSE, 30, FALSE)]

\* faulty variant: the decoded board is not handed to the poller
updateManagerFromBytesDropped(data) == UNCHANGED <<now, mgr, pingVars, sshVars>>
\* updateManagerFromBytes: a decoding error returns without a call (s.ping is set)
updateManagerFromBytes(data) ==
    IF data.kind = "board"
    THEN BoardUpdate(data.board)
    ELSE UNCHANGED <<now, mgr, pingVars, sshVars>>

\* saveBoard ends early: ensureDataDir or the read of the body failed, or the body is
\* not valid JSON
SaveBoardRefused(code) ==
    /\ hpc \in {"idle", "done"}
    /\ hpc' = "done"
    /\ body' = NoBody("none")
    /\ saved' = code
    /\ atEntry' = <<nodes, settings>>
    /\ UNCHANGED <<now, mgr, pingVars, sshVars, boardFile, served, devVars, logVars>>

\* saveBoard from its entry to s.updateManagerFromBytes(body)
SaveBoardUpdate(b) ==
    /\ hpc \in {"idle", "done"}
    /\ hpc' = "write"
    /\ body' = b
    /\ saved' = "none"
    /\ atEntry' = <<nodes, settings>>
    /\ updateManagerFromBytes(b)
    /\ UNCHANGED <<boardFile, served, devVars, logVars>>

\* saveBoard from json.Unmarshal into pretty to its answer; ok: os.WriteFile succeeded
SaveBoardWrite(ok) ==
    /\ hpc = "write"
    /\ hpc' = "done"
    /\ boardFile' = IF ok THEN body ELSE boardFile
    /\ saved' = IF ok THEN "200" ELSE "500"
    /\ UNCHANGED <<now, mgr, pingVars, sshVars, body, atEntry, served, devVars, logVars>>

\* serveBoard; ok: the data directory, the file and its default could be made and read
ServeBoard(ok) ==
    /\ served.code = "none"
    /\ IF ok
       THEN LET data == IF boardFile.kind = "absent" THEN BoardBody(DefaultBoard)
                        ELSE boardFile
            IN  /\ boardFile' = data
                /\ updateManagerFromBytes(data)
                /\ served' = Response("200", data)
       ELSE /\ served' = Response("500", NoBody("none"))
            /\ UNCHANGED <<now, mgr, pingVars, sshVars, boardFile>>
    /\ UNCHANGED <<hpc, body, saved, atEntry, devVars, logVars>>

\* the client has the answer of its GET and may send the next one
BoardServed ==
    /\ served.code # "none"
    /\ served' = Response("none", NoBody("none"))
    /\ UNCHANGED <<now, mgr, pingVars, sshVars, boardFile, hpc, body, saved, atEntry,
                   devVars, logVars>>

(***************************************************************************)
(***************************************************************************)
(* Server: the handlers of /api/device-settings/{id}, for one id.  Of      *)
(* model.DeviceSettings the record keeps the connect switch, the OS, the   *)
(* host, the password (the credentials) and the link speed; exists is the  *)
(* bool of SecretStore.Get.  Get and Set each run under the store's mutex; *)
(* no lock covers a handler.  Request bodies carry trimmed lower-case text.*)
(***************************************************************************)
DeviceSettings(connect, os, host, password, speed) ==
    [exists |-> TRUE, ConnectEnabled |-> connect, OS |-> os, Host |-> host,
     Password |-> password, LinkSpeedMbps |-> speed]
NoSettings == [DeviceSettings(FALSE, "", "", "", 0) EXCEPT !.exists = FALSE]

sanitizeDeviceSettings(s) ==
    [s EXCEPT !.OS = IF @ = "" THEN "linux" ELSE @,
              !.LinkSpeedMbps = IF @ < 0 THEN 0 ELSE @]

\* GET: s.secrets.Get(id) and the tests before DetectLinkSpeed
GetDevice(detect, forceDetect) ==
    /\ gpc \in {"idle", "done"}
    /\ gLocal' = secrets
    /\ gpc' = IF /\ secrets.exists
                 /\ detect /\ secrets.ConnectEnabled
                 /\ secrets.OS = "linux"
                 /\ (secrets.LinkSpeedMbps = 0 \/ forceDetect)
              THEN "detect" ELSE "done"
    /\ UNCHANGED <<now, mgr, pingVars, sshVars, boardVars, logVars, secrets, ppc, pLocal>>

\* GET: DetectLinkSpeed has returned (speed 0: an error or no speed), s.secrets.Set(id,
\* settings) with the settings read at the start (ok: the store could be written), answer
GetDeviceDetected(speed, ok) ==
    /\ gpc = "detect"
    /\ gpc' = "done"
    /\ gLocal' = IF speed > 0 THEN [gLocal EXCEPT !.LinkSpeedMbps = speed] ELSE gLocal
    /\ secrets' = IF speed > 0 /\ ok THEN gLocal' ELSE secrets
    /\ UNCHANGED <<now, mgr, pingVars, sshVars, boardVars, logVars, ppc, pLocal>>

\* POST: the body is decoded and sanitized
PostDevice(decoded) ==
    /\ ppc \in {"idle", "done", "failed"}
    /\ ppc' = "set"
    /\ pLocal' = sanitizeDeviceSettings(decoded)
    /\ UNCHANGED <<now, mgr, pingVars, sshVars, boardVars, logVars, secrets, gpc, gLocal>>

\* POST: DetectLinkSpeed where it applies, s.secrets.Set(id, settings), answer
PostDeviceSet(speed, ok) ==
    /\ ppc = "set"
    /\ pLocal' = IF pLocal.ConnectEnabled /\ pLocal.OS = "linux" /\ speed > 0
                 THEN [pLocal EXCEPT !.LinkSpeedMbps = speed] ELSE pLocal
    /\ secrets' = IF ok THEN pLocal' ELSE secrets
    /\ ppc' = IF ok THEN "done" ELSE "failed"
    /\ UNCHANGED <<now, mgr, pingVars, sshVars, boardVars, logVars, gpc, gLocal>>

(***************************************************************************)
(* LogStore.  An entry is the caller that built it and the number of its   *)
(* build, which stands for its Time, Level, Source and Message.            *)
(***************************************************************************)
DefaultLogMax == 500
MaxAdds == 5         \* entries built in one behaviour
LogCallers == {"poller", "handler"}
NoEntry == [by |-> "none", at |-> 0]

NewLogStore(max) == IF max <= 0 THEN DefaultLogMax ELSE max

\* faulty variant: a full store puts the entry over its last one without moving the rest
AppendedOverLast(its, max, e) ==
    IF Len(its) >= max
    THEN [k \in 1..Len(its) |-> IF k < Len(its) THEN its[k] ELSE e]
    ELSE Append(its, e)
\* Add between Lock and Unlock: a full store moves every entry one place down and puts
\* the new one last, any other store appends
Appended(its, max, e) ==
    IF Len(its) >= max
    THEN [k \in 1..Len(its) |-> IF k < Len(its) THEN its[k + 1] ELSE e]
    ELSE Append(its, e)

\* Add up to l.mu.Lock(): the entry is built with the time of this moment
AddBuild(c) ==
    /\ lpc[c] = "idle"
    /\ built < MaxAdds
    /\ built' = built + 1
    /\ entry' = [entry EXCEPT ![c] = [by |-> c, at |-> built + 1]]
    /\ lpc' = [lpc EXCEPT ![c] = "built"]
    /\ UNCHANGED <<now, mgr, pingVars, sshVars, boardVars, devVars, lmax, items, added, listed>>

\* Add from l.mu.Lock() to its return
Add(c) ==
    /\ lpc[c] = "built"
    /\ items' = Appended(items, lmax, entry[c])
    /\ added' = Append(added, entry[c])
    /\ lpc' = [lpc EXCEPT ![c] = "idle"]
    /\ entry' = [entry EXCEPT ![c] = NoEntry]
    /\ UNCHANGED <<now, mgr, pingVars, sshVars, boardVars, devVars, lmax, built, listed>>

\* List(limit), under l.mu
List(limit) ==
    /\ LET n == IF limit <= 0 \/ limit > Len(items) THEN Len(items) ELSE limit
           start == Len(items) - n
       IN  listed' = [limit |-> limit, out |-> [k \in 1..n |-> items[start + k]]]
    /\ UNCHANGED <<now, mgr, pingVars, sshVars, boardVars, devVars, lmax, items, lpc, entry,
                   built, added>>

\* server.New: no request is under way; the board file is not written yet
InitBoard ==
    /\ boardFile = NoBody("absent")
    /\ hpc = "idle"
    /\ body = NoBody("none")
    /\ saved = "none"
    /\ atEntry = <<<<>>, defaultMonitoringSettings>>
    /\ served = Response("none", NoBody("none"))

\* the SecretStore holds no record of the id and no request is under way
InitDevice ==
    /\ secrets = NoSettings
    /\ gpc = "idle" /\ gLocal = NoSettings
    /\ ppc = "idle" /\ pLocal = NoSettings

\* NewLogStore(max) and no call under way
InitLogs(max) ==
    /\ lmax = NewLogStore(max)
    /\ items = <<>>
    /\ lpc = [c \in LogCallers |-> "idle"]
    /\ entry = [c \in LogCallers |-> NoEntry]
    /\ built = 0
    /\ added = <<>>
    /\ listed = [limit |-> 0, out |-> <<>>]

InitServer == InitBoard /\ InitDevice /\ InitLogs(0)

Init ==
    /\ now = 0
    /\ mgr \in {"ping", "ssh"}
    /\ InitPing
    /\ InitSSH
    /\ InitServer

\* the state after construction in a behaviour of the reachability poller
InitReachability == Init /\ mgr = "ping"

Lookups == {Lookup("", TRUE, "", "root"), Lookup("read failed", FALSE, "", "")}
HostNames == {"198.51.100.7", "10.0.0.7", "100.64.0.7", "203.0.113.5"}
DialAll(err) == [h \in HostNames |-> err]
Dials == {DialAll(""), DialAll("dial tcp: i/o timeout")}

PingCalls ==
    \/ \E b \in Boards : UpdateFromBoard(b)
    \/ \E ns \in TargetSets : UpdateNodes(ns)
    \/ \E s \in PolicyInputs : SetSettings(s)
    \/ signalUpdate

PingLoop ==
    \/ LoopTop
    \/ DisabledSignal
    \/ DisabledTimeout
    \/ ArmedTick
    \/ ArmedSignal
    \/ IsEnabled
    \/ getNodesSnapshot
    \/ getStatusSnapshot
    \/ SnapSettings
    \/ FanOut
    \/ \E g \in BagToSet(probes) : ProbeStart(g)
    \/ \E g \in BagToSet(probes), run \in CommandRuns : ProbeReturn(g, run)
    \/ MergeLock
    \/ MergeWrite
    \/ MergePrune
    \/ CycleReturn

SSHCalls ==
    \/ \E ns \in TargetSets : SSHUpdateNodes(ns)
    \/ SSHsignalUpdate

SSHLoop ==
    \/ SSHTick
    \/ SSHSignal
    \/ SSHgetNodesSnapshot
    \/ SSHFanOut
    \/ \E g \in BagToSet(sProbes) : CheckStart(g)
    \/ \E g \in BagToSet(sProbes), look \in Lookups, dial \in Dials :
            CheckReturn(g, look, dial)
    \/ SSHMergeLock
    \/ SSHMergeWrite
    \/ SSHMergePrune
    \/ SSHReturn

(***************************************************************************)
(* The update operations alone, with the interval drawn from both sides of *)
(* the limits.  The intervals of the boards and of SetSettings differ, and *)
(* none is the default, so a state tells which call set its interval.      *)
(***************************************************************************)
MaxDevices == 2
RECURSIVE TargetSetsUpTo(_)
TargetSetsUpTo(n) ==
    IF n = 0 THEN {<<>>}
    ELSE LET shorter == TargetSetsUpTo(n - 1)
         IN  shorter \cup {Append(ns, d) : ns \in shorter, d \in Catalogue(n)}
IntervalInputs == {-5, 0, 4, 5, 120, 3600, 3601}
BoardIntervals == {-1, 0, 7, 3601}
WidePolicies == [Enabled : BOOLEAN, IntervalSec : IntervalInputs, ShowStatus : BOOLEAN]
WideBoards == [Nodes : TargetSetsUpTo(MaxDevices),
               Monitoring : [Enabled : BOOLEAN, IntervalSec : BoardIntervals,
                             ShowStatus : BOOLEAN]]

NextPolicy ==
    \/ \E b \in WideBoards : UpdateFromBoard(b)
    \/ \E ns \in TargetSetsUpTo(MaxDevices) : UpdateNodes(ns)
    \/ \E s \in WidePolicies : SetSettings(s)
    \/ signalUpdate

SpecPolicy == InitReachability /\ [][NextPolicy]_vars

(***************************************************************************)
(* The reachability poller on a clock of one second, with one board: a     *)
(* device with the interval override 2 and a device without addresses on   *)
(* the global interval 5.                                                  *)
(***************************************************************************)
TimedBoard == [Nodes |-> <<Pingable(1), Unaddressed(2)>>,
               Monitoring |-> MonitoringSettings(FALSE, MinIntervalSec, FALSE)]

NextTimed ==
    \/ UpdateFromBoard(TimedBoard)
    \/ signalUpdate
    \/ PingLoop
    \/ Tick(1, MaxTime)

SpecTimed == InitReachability /\ [][NextTimed]_vars

(***************************************************************************)
(* The fan-out of one cycle over more devices than a pool has places, in   *)
(* one instant of the clock: the caller installs FanDevices devices, all   *)
(* of them ping-enabled and connect-enabled, and every probe succeeds.     *)
(***************************************************************************)
FanDevices == 9
FanTargets == [k \in 1..FanDevices |-> Pingable(k)]
FanRun == CommandRun(FALSE, FALSE, 1)
FanLookup == Lookup("", TRUE, "", "root")

NextFan ==
    \/ (mgr = "ping" /\ nodes = <<>> /\ UpdateNodes(FanTargets))
    \/ signalUpdate
    \/ LoopTop
    \/ DisabledSignal
    \/ ArmedSignal
    \/ IsEnabled
    \/ getNodesSnapshot
    \/ getStatusSnapshot
    \/ SnapSettings
    \/ FanOut
    \/ \E g \in BagToSet(probes) : ProbeStart(g)
    \/ \E g \in BagToSet(probes) : ProbeReturn(g, FanRun)
    \/ MergeLock
    \/ MergeWrite
    \/ MergePrune
    \/ CycleReturn
    \/ (mgr = "ssh" /\ sNodes = <<>> /\ SSHUpdateNodes(FanTargets))
    \/ SSHsignalUpdate
    \/ SSHSignal
    \/ SSHgetNodesSnapshot
    \/ SSHFanOut
    \/ \E g \in BagToSet(sProbes) : CheckStart(g)
    \/ \E g \in BagToSet(sProbes) : CheckReturn(g, FanLookup, DialAll(""))
    \/ SSHMergeLock
    \/ SSHMergeWrite
    \/ SSHMergePrune
    \/ SSHReturn

SpecFan == Init /\ [][NextFan]_vars

(***************************************************************************)
(* The pollers with a caller of GetStatus beside the loop.  The callers of *)
(* the update operations send a target set of two devices and the set      *)
(* without the second of them, with the interval 5.                        *)
(***************************************************************************)
ReadTargetSets == {<<Pingable(1), Unaddressed(2)>>, <<Pingable(1)>>}
ReadBoards == [Nodes : ReadTargetSets,
               Monitoring : {MonitoringSettings(FALSE, MinIntervalSec, FALSE)}]

NextRead ==
    \/ (mgr = "ping" /\ \E b \in ReadBoards : UpdateFromBoard(b))
    \/ signalUpdate
    \/ (mgr = "ping" /\ GetStatus)
    \/ GetStatusCopy
    \/ GetStatusReturn
    \/ GetStatusDone
    \/ PingLoop
    \/ (mgr = "ping" /\ Tick(MinIntervalSec, Horizon(MinIntervalSec)))
    \/ (mgr = "ssh" /\ \E ns \in ReadTargetSets : SSHUpdateNodes(ns))
    \/ SSHsignalUpdate
    \/ (mgr = "ssh" /\ SSHGetStatus)
    \/ SSHGetStatusCopy
    \/ SSHGetStatusReturn
    \/ SSHGetStatusDone
    \/ SSHLoop
    \/ (mgr = "ssh" /\ Tick(SSHIntervalSec, Horizon(SSHIntervalSec)))

SpecRead == Init /\ [][NextRead]_vars

(***************************************************************************)
(* The pollers under fair scheduling: the loop goroutine and the probe     *)
(* goroutines of a poller keep running, and a caller that has left the     *)
(* critical section of an update goes on to signalUpdate.  Nothing obliges *)
(* a caller to call, nor the clock to advance.                             *)
(***************************************************************************)
LiveTargetSets == {<<Pingable(1)>>, <<SwitchedOff(1)>>}
LivePolicy == MonitoringSettings(FALSE, MinIntervalSec, FALSE)
LiveBoard == [Nodes |-> <<Pingable(1)>>, Monitoring |-> LivePolicy]

NextLive ==
    \/ (mgr = "ping" /\ UpdateFromBoard(LiveBoard))
    \/ (mgr = "ping" /\ \E ns \in LiveTargetSets : UpdateNodes(ns))
    \/ (mgr = "ping" /\ SetSettings(LivePolicy))
    \/ signalUpdate
    \/ PingLoop
    \/ (mgr = "ping" /\ Tick(MinIntervalSec, Horizon(MinIntervalSec)))
    \/ (mgr = "ssh" /\ \E ns \in LiveTargetSets : SSHUpdateNodes(ns))
    \/ SSHsignalUpdate
    \/ SSHLoop
    \/ (mgr = "ssh" /\ Tick(SSHIntervalSec, Horizon(SSHIntervalSec)))

FairScheduling ==
    /\ WF_vars(PingLoop)
    /\ WF_vars(signalUpdate)
    /\ WF_vars(SSHLoop)
    /\ WF_vars(SSHsignalUpdate)

SpecLive == Init /\ [][NextLive]_vars /\ FairScheduling

(***************************************************************************)
(* The pollers with a caller of GetStatus that changes the map it was      *)
(* given, once per call.                                                   *)
(***************************************************************************)
EditKeys == {3}
ForgedResult == PingResult(TRUE, 0, 99, "forged", "")
ForgedStatus == SSHStatus(TRUE, 0, "forged")

NextCopy ==
    \/ (mgr = "ping" /\ UpdateFromBoard(TimedBoard))
    \/ signalUpdate
    \/ (mgr = "ping" /\ GetStatus)
    \/ GetStatusCopy
    \/ GetStatusReturn
    \/ CallerEdit(EditKeys, ForgedResult)
    \/ GetStatusDone
    \/ PingLoop
    \/ (mgr = "ping" /\ Tick(MinIntervalSec, Horizon(MinIntervalSec)))
    \/ (mgr = "ssh" /\ SSHUpdateNodes(TimedBoard.Nodes))
    \/ SSHsignalUpdate
    \/ (mgr = "ssh" /\ SSHGetStatus)
    \/ SSHGetStatusCopy
    \/ SSHGetStatusReturn
    \/ SSHCallerEdit(EditKeys, ForgedStatus)
    \/ SSHGetStatusDone
    \/ SSHLoop
    \/ (mgr = "ssh" /\ Tick(SSHIntervalSec, Horizon(SSHIntervalSec)))

SpecCopy == Init /\ [][NextCopy]_vars

(***************************************************************************)
(* The liveness poller alone, in one instant of the clock, with the        *)
(* answers of the settings provider and the outcomes of the dial drawn     *)
(* from wide sets: no provider, a read error, not found, stored hosts and  *)
(* user names that are empty or blank, no password, and dials that reach   *)
(* only the public or only the private address.                            *)
(***************************************************************************)
NoProvider == [Lookup("", FALSE, "", "") EXCEPT !.provider = FALSE]
WideLookups ==
    {NoProvider, Lookup("read failed", FALSE, "", ""), Lookup("", FALSE, "", ""),
     Lookup("", TRUE, "", "root"), Lookup("", TRUE, " ", "root"),
     Lookup("", TRUE, " 203.0.113.5 ", "root"), Lookup("", TRUE, "", " "),
     [Lookup("", TRUE, "", "root") EXCEPT !.settings.Password = ""]}
WideDials ==
    {DialAll(""), DialAll("dial tcp: i/o timeout"),
     [DialAll("ssh: handshake failed") EXCEPT !["198.51.100.7"] = ""],
     [DialAll("ssh: handshake failed") EXCEPT !["10.0.0.7"] = ""]}
LookupTargetSets == {<<Pingable(1), Unaddressed(2)>>, <<Overlaid(1)>>}
InitLiveness == Init /\ mgr = "ssh"

NextLookup ==
    \/ \E ns \in LookupTargetSets : SSHUpdateNodes(ns)
    \/ SSHsignalUpdate
    \/ SSHSignal
    \/ SSHgetNodesSnapshot
    \/ SSHFanOut
    \/ \E g \in BagToSet(sProbes) : CheckStart(g)
    \/ \E g \in BagToSet(sProbes), look \in WideLookups, dial \in WideDials :
            CheckReturn(g, look, dial)
    \/ SSHMergeLock
    \/ SSHMergeWrite
    \/ SSHMergePrune
    \/ SSHReturn

SpecLookup == InitLiveness /\ [][NextLookup]_vars

(***************************************************************************)
(* The pollers under fair scheduling with two devices that are probed in   *)
(* the same cycle; each probe fails or succeeds on its own.                *)
(***************************************************************************)
IsolationTargets == <<Pingable(1), Pingable(3)>>
IsolationBoard == [Nodes |-> IsolationTargets, Monitoring |-> LivePolicy]

NextIsolation ==
    \/ (mgr = "ping" /\ UpdateFromBoard(IsolationBoard))
    \/ signalUpdate
    \/ PingLoop
    \/ (mgr = "ping" /\ Tick(MinIntervalSec, Horizon(MinIntervalSec)))
    \/ (mgr = "ssh" /\ SSHUpdateNodes(IsolationTargets))
    \/ SSHsignalUpdate
    \/ SSHLoop
    \/ (mgr = "ssh" /\ Tick(SSHIntervalSec, Horizon(SSHIntervalSec)))

SpecIsolation == Init /\ [][NextIsolation]_vars /\ FairScheduling

(***************************************************************************)
(* The reachability poller on a clock of one second that runs over two     *)
(* periods of the ticker, with one device that is ping-enabled and has no  *)
(* interval of its own: its effective interval is the period of the        *)
(* ticker.                                                                 *)
(***************************************************************************)
RetryHorizon == 10
RetryBoard == [Nodes |-> <<Defaulted(1)>>,
               Monitoring |-> MonitoringSettings(FALSE, MinIntervalSec, FALSE)]

NextRetry ==
    \/ UpdateFromBoard(RetryBoard)
    \/ signalUpdate
    \/ PingLoop
    \/ Tick(1, RetryHorizon)

SpecRetry == InitReachability /\ [][NextRetry]_vars

(***************************************************************************)
(* The update operations beside the loop of the reachability poller, in    *)
(* one instant of the clock: the loop is woken by the update signal only.  *)
(* The policies differ in every field, and one interval is out of range.   *)
(***************************************************************************)
FrameTargetSets == {<<>>, <<Pingable(1)>>, <<SwitchedOff(1), Segment(2)>>}
FramePolicies == {MonitoringSettings(TRUE, 0, TRUE), MonitoringSettings(FALSE, 5, FALSE),
                  MonitoringSettings(FALSE, 3601, TRUE)}
FrameBoards == [Nodes : FrameTargetSets, Monitoring : FramePolicies]

NextFrame ==
    \/ \E b \in FrameBoards : UpdateFromBoard(b)
    \/ \E ns \in FrameTargetSets : UpdateNodes(ns)
    \/ \E s \in FramePolicies : SetSettings(s)
    \/ signalUpdate
    \/ LoopTop
    \/ DisabledSignal
    \/ ArmedSignal
    \/ IsEnabled
    \/ getNodesSnapshot
    \/ getStatusSnapshot
    \/ SnapSettings
    \/ FanOut
    \/ \E g \in BagToSet(probes) : ProbeStart(g)
    \/ \E g \in BagToSet(probes), run \in CommandRuns : ProbeReturn(g, run)
    \/ MergeLock
    \/ MergeWrite
    \/ MergePrune
    \/ CycleReturn

SpecFrame == InitReachability /\ [][NextFrame]_vars

(***************************************************************************)
(* The reachability poller in one instant of the clock, with devices of    *)
(* every combination of present and absent addresses and with every        *)
(* outcome of the ping command: deadline passed or not, exit status zero   *)
(* or not, a round-trip time in the output or none.  A target set holds    *)
(* one device; the two ids let a later set replace the device of an        *)
(* earlier one.                                                            *)
(***************************************************************************)
AddressDevices(id) ==
    {Node(id, "server", pub, priv, ts, "true", 0, TRUE) :
        pub \in {"", "198.51.100.7"}, priv \in {"", "10.0.0.7"}, ts \in {"", "100.64.0.7"}}
AddressTargetSets == {<<d>> : d \in AddressDevices(1) \cup AddressDevices(2)}
WideRuns == {CommandRun(dl, failed, rtt) : dl \in BOOLEAN, failed \in BOOLEAN, rtt \in {0, 1}}

NextAddress ==
    \/ \E ns \in AddressTargetSets : UpdateNodes(ns)
    \/ signalUpdate
    \/ LoopTop
    \/ DisabledSignal
    \/ ArmedSignal
    \/ IsEnabled
    \/ getNodesSnapshot
    \/ getStatusSnapshot
    \/ SnapSettings
    \/ FanOut
    \/ \E g \in BagToSet(probes) : ProbeStart(g)
    \/ \E g \in BagToSet(probes), run \in WideRuns : ProbeReturn(g, run)
    \/ MergeLock
    \/ MergeWrite
    \/ MergePrune
    \/ CycleReturn

SpecAddress == InitReachability /\ [][NextAddress]_vars

(***************************************************************************)
(* The reachability poller with a clock of one second and one device whose *)
(* interval override is negative, zero, below the range of the policy      *)
(* interval, or above it.  The callers send the device with the interval 5 *)
(* or with the interval 0, which the manager stores as 30; every probe     *)
(* succeeds.                                                               *)
(***************************************************************************)
OverrideInputs == {-1, 0, 2, 3601}
Overridden(id, o) == Node(id, "server", "198.51.100.7", "", "", "true", o, FALSE)
IntervalBoards == [Nodes : {<<Overridden(1, o)>> : o \in OverrideInputs},
                   Monitoring : {MonitoringSettings(FALSE, MinIntervalSec, FALSE),
                                 MonitoringSettings(TRUE, 0, TRUE)}]

NextInterval ==
    \/ \E b \in IntervalBoards : (nodes = <<>> \/ nodes = b.Nodes) /\ UpdateFromBoard(b)
    \/ signalUpdate
    \/ LoopTop
    \/ DisabledSignal
    \/ DisabledTimeout
    \/ ArmedTick
    \/ ArmedSignal
    \/ IsEnabled
    \/ getNodesSnapshot
    \/ getStatusSnapshot
    \/ SnapSettings
    \/ FanOut
    \/ \E g \in BagToSet(probes) : ProbeStart(g)
    \/ \E g \in BagToSet(probes) : ProbeReturn(g, FanRun)
    \/ MergeLock
    \/ MergeWrite
    \/ MergePrune
    \/ CycleReturn
    \/ Tick(1, MaxTime)

SpecInterval == InitReachability /\ [][NextInterval]_vars

(***************************************************************************)
(* The reachability poller in one instant of the clock beside callers of   *)
(* UpdateFromBoard that send one of two boards: one device with the        *)
(* interval 5, or two devices with the interval 0, stored as 30.           *)
(***************************************************************************)
SnapshotBoards ==
    {[Nodes |-> <<Pingable(1)>>,
      Monitoring |-> MonitoringSettings(FALSE, MinIntervalSec, FALSE)],
     [Nodes |-> <<Pingable(1), Unaddressed(2)>>,
      Monitoring |-> MonitoringSettings(TRUE, 0, TRUE)]}

NextSnapshot ==
    \/ \E b \in SnapshotBoards : UpdateFromBoard(b)
    \/ signalUpdate
    \/ LoopTop
    \/ DisabledSignal
    \/ ArmedSignal
    \/ IsEnabled
    \/ getNodesSnapshot
    \/ getStatusSnapshot
    \/ SnapSettings
    \/ FanOut
    \/ \E g \in BagToSet(probes) : ProbeStart(g)
    \/ \E g \in BagToSet(probes), run \in CommandRuns : ProbeReturn(g, run)
    \/ MergeLock
    \/ MergeWrite
    \/ MergePrune
    \/ CycleReturn

SpecSnapshot == InitReachability /\ [][NextSnapshot]_vars

(***************************************************************************)
(* The pollers in one instant of the clock beside the update operations    *)
(* and a caller of GetStatus.  The callers send one probed device, or      *)
(* another device with probing switched off: the second set removes the    *)
(* first device and disables the reachability poller.                      *)
(***************************************************************************)
StaleTargetSets == {<<Pingable(1)>>, <<SwitchedOff(2)>>}
StaleBoards == [Nodes : StaleTargetSets,
                Monitoring : {MonitoringSettings(FALSE, MinIntervalSec, FALSE)}]

NextStale ==
    \/ (mgr = "ping" /\ \E b \in StaleBoards : UpdateFromBoard(b))
    \/ (mgr = "ping" /\ \E ns \in StaleTargetSets : UpdateNodes(ns))
    \/ (mgr = "ping" /\ SetSettings(MonitoringSettings(TRUE, 0, TRUE)))
    \/ signalUpdate
    \/ (mgr = "ping" /\ GetStatus)
    \/ GetStatusCopy
    \/ GetStatusReturn
    \/ GetStatusDone
    \/ LoopTop
    \/ DisabledSignal
    \/ ArmedSignal
    \/ IsEnabled
    \/ getNodesSnapshot
    \/ getStatusSnapshot
    \/ SnapSettings
    \/ FanOut
    \/ \E g \in BagToSet(probes) : ProbeStart(g)
    \/ \E g \in BagToSet(probes), run \in CommandRuns : ProbeReturn(g, run)
    \/ MergeLock
    \/ MergeWrite
    \/ MergePrune
    \/ CycleReturn
    \/ (mgr = "ssh" /\ \E ns \in StaleTargetSets : SSHUpdateNodes(ns))
    \/ SSHsignalUpdate
    \/ (mgr = "ssh" /\ SSHGetStatus)
    \/ SSHGetStatusCopy
    \/ SSHGetStatusReturn
    \/ SSHGetStatusDone
    \/ SSHSignal
    \/ SSHgetNodesSnapshot
    \/ SSHFanOut
    \/ \E g \in BagToSet(sProbes) : CheckStart(g)
    \/ \E g \in BagToSet(sProbes), look \in Lookups, dial \in Dials : CheckReturn(g, look, dial)
    \/ SSHMergeLock
    \/ SSHMergeWrite
    \/ SSHMergePrune
    \/ SSHReturn

SpecStale == Init /\ [][NextStale]_vars

(***************************************************************************)
(* The server's handlers of /api/board, /api/monitoring/nodes and          *)
(* /api/monitoring beside the reachability poller, in one instant of the   *)
(* clock.  The bodies of POST /api/board are two boards and a JSON text    *)
(* that is no board; writes and reads of the board file may fail.  The     *)
(* poller's loop is followed up to the point where it takes the signal.    *)
(***************************************************************************)
ServerBodies == {BoardBody(b) : b \in StaleBoards} \cup {OtherJSON}

NextServer ==
    \/ \E code \in {"400", "500"} : SaveBoardRefused(code)
    \/ \E b \in ServerBodies : SaveBoardUpdate(b)
    \/ \E ok \in BOOLEAN : SaveBoardWrite(ok)
    \/ \E ok \in BOOLEAN : ServeBoard(ok)
    \/ BoardServed
    \/ UpdateNodes(<<Pingable(3)>>)
    \/ SetSettings(MonitoringSettings(TRUE, 120, TRUE))
    \/ signalUpdate
    \/ LoopTop
    \/ DisabledSignal
    \/ ArmedSignal

SpecServer == InitReachability /\ [][NextServer]_vars

(***************************************************************************)
(* The handlers of /api/device-settings/{id} for one id: POSTs of three    *)
(* bodies beside GETs with and without detect=1 and force=1; the detection *)
(* finds 1000 Mbps or nothing, and a write of the store may fail.          *)
(***************************************************************************)
DeviceInputs ==
    {DeviceSettings(TRUE, "", "10.0.0.7", "alpha", 0),
     DeviceSettings(TRUE, "linux", "10.0.0.8", "beta", -1),
     DeviceSettings(FALSE, "windows", "10.0.0.9", "", 100)}
DetectedSpeeds == {0, 1000}

NextDevice ==
    \/ \E detect \in BOOLEAN, forceDetect \in BOOLEAN : GetDevice(detect, forceDetect)
    \/ \E speed \in DetectedSpeeds, ok \in BOOLEAN : GetDeviceDetected(speed, ok)
    \/ \E decoded \in DeviceInputs : PostDevice(decoded)
    \/ \E speed \in DetectedSpeeds, ok \in BOOLEAN : PostDeviceSet(speed, ok)

SpecDevice == InitReachability /\ [][NextDevice]_vars

(***************************************************************************)
(* The LogStore with two callers of Add, a poller and a handler, whose     *)
(* calls interleave, and List with limits below, at and above the length.  *)
(* The store is constructed with a max from LogMaxInputs; at most MaxAdds  *)
(* entries are built.                                                      *)
(***************************************************************************)
LogMaxInputs == {-1, 0, 1, 2, 3}
ListLimits == {-1, 0, 1, 2, 4}

InitLog ==
    /\ now = 0 /\ mgr = "ping"
    /\ InitPing /\ InitSSH /\ InitBoard /\ InitDevice
    /\ \E max \in LogMaxInputs : InitLogs(max)

NextLog ==
    \/ \E c \in LogCallers : AddBuild(c)
    \/ \E c \in LogCallers : Add(c)
    \/ \E limit \in ListLimits : List(limit)

SpecLog == InitLog /\ [][NextLog]_vars

(***************************************************************************)
(* The fan-out over more devices than a pool has places, with an updater   *)
(* that calls again and again and a caller of GetStatus beside the loop,   *)
(* in one instant of the clock.  Every probe returns.  The probes of a     *)
(* cycle are alike: they take their places in the pool and return by the   *)
(* order of their ids, and the caller copies the keys in that order.       *)
(* Scheduling: the goroutines of a poller                                  *)
(* keep running, a caller inside GetStatus goes on to its return, and a    *)
(* Lock that waits is granted once the readers have left (sync.RWMutex     *)
(* keeps new readers out while a Lock call is blocked).                    *)
(***************************************************************************)
Ascending(m, before, after) ==
    \A k \in (DOMAIN after) \ (DOMAIN before) : \A j \in (DOMAIN m) \ (DOMAIN before) : k <= j

FirstPing(g) == \A h \in BagToSet(probes) : h.st = g.st => g.nodeID <= h.nodeID
FirstCheck(g) == \A h \in BagToSet(sProbes) : h.st = g.st => g.node.ID <= h.node.ID

BusyPingLoop ==
    \/ LoopTop
    \/ DisabledSignal
    \/ ArmedSignal
    \/ IsEnabled
    \/ getNodesSnapshot
    \/ getStatusSnapshot
    \/ SnapSettings
    \/ FanOut
    \/ \E g \in BagToSet(probes) : FirstPing(g) /\ ProbeStart(g)
    \/ \E g \in BagToSet(probes) : FirstPing(g) /\ ProbeReturn(g, FanRun)
    \/ MergeLock
    \/ MergeWrite
    \/ MergePrune
    \/ CycleReturn

BusySSHLoop ==
    \/ SSHSignal
    \/ SSHgetNodesSnapshot
    \/ SSHFanOut
    \/ \E g \in BagToSet(sProbes) : FirstCheck(g) /\ CheckStart(g)
    \/ \E g \in BagToSet(sProbes) : FirstCheck(g) /\ CheckReturn(g, FanLookup, DialAll(""))
    \/ SSHMergeLock
    \/ SSHMergeWrite
    \/ SSHMergePrune
    \/ SSHReturn

BusyReader == (GetStatusCopy /\ Ascending(status, got, got')) \/ GetStatusReturn
BusySSHReader == (SSHGetStatusCopy /\ Ascending(sStatus, sGot, sGot')) \/ SSHGetStatusReturn

NextBusy ==
    \/ (mgr = "ping" /\ UpdateNodes(FanTargets))
    \/ signalUpdate
    \/ (mgr = "ping" /\ GetStatus)
    \/ BusyReader
    \/ GetStatusDone
    \/ BusyPingLoop
    \/ (mgr = "ssh" /\ SSHUpdateNodes(FanTargets))
    \/ SSHsignalUpdate
    \/ (mgr = "ssh" /\ SSHGetStatus)
    \/ BusySSHReader
    \/ SSHGetStatusDone
    \/ BusySSHLoop

BusyScheduling ==
    /\ WF_vars(BusyPingLoop) /\ SF_vars(MergeLock) /\ WF_vars(BusyReader)
    /\ WF_vars(BusySSHLoop) /\ SF_vars(SSHMergeLock) /\ WF_vars(BusySSHReader)

SpecBusy == Init /\ [][NextBusy]_vars /\ BusyScheduling

Next ==
    \/ (mgr = "ping" /\ PingCalls)
    \/ PingLoop
    \/ (mgr = "ping" /\ Tick(MinIntervalSec, Horizon(MinIntervalSec)))
    \/ (mgr = "ssh" /\ SSHCalls)
    \/ SSHLoop
    \/ (mgr = "ssh" /\ Tick(SSHIntervalSec, Horizon(SSHIntervalSec)))

Spec == Init /\ [][Next]_vars

(***************************************************************************)
(* Counting the goroutines of a bag.                                       *)
(***************************************************************************)
BagOf(bag, keep) == [g \in keep |-> CopiesIn(g, bag)]
Running(bag) == BagCardinality(BagOf(bag, {g \in BagToSet(bag) : g.st = "running"}))
RunningPings(id) ==
    BagCardinality(BagOf(probes, {g \in BagToSet(probes) :
                                       g.st = "running" /\ g.nodeID = id}))
RunningChecks(id) ==
    BagCardinality(BagOf(sProbes, {g \in BagToSet(sProbes) :
                                        g.st = "running" /\ g.node.ID = id}))
AllIds == Ids(nodes) \cup Ids(cNodes) \cup Ids(sNodes) \cup Ids(scNodes)
                     \cup {g.nodeID : g \in BagToSet(probes)}
                     \cup {g.node.ID : g \in BagToSet(sProbes)}
InMerge == pc \in {"mergeWrite", "mergePrune"}
SSHInMerge == sPc \in {"mergeWrite", "mergePrune"}

(***************************************************************************)
(* C1 as stated: in every reachable state every key of a result cache is   *)
(* the id of a device of that poller's current target set.                 *)
(***************************************************************************)
C1_CacheWithinTargetSet ==
    /\ DOMAIN status \subseteq Ids(nodes)
    /\ DOMAIN sStatus \subseteq Ids(sNodes)

(***************************************************************************)
(* C1 amended: a result cache changes only in the merge of a cycle; an id  *)
(* leaves it only in a merge whose target snapshot lacks the id; and when  *)
(* a merge ends every key of the cache is an id of that cycle's target     *)
(* snapshot.  An update call leaves the cache as it is.                    *)
(***************************************************************************)
C1_PingStep ==
    /\ status' # status => InMerge
    /\ \A id \in (DOMAIN status) \ (DOMAIN status') :
           pc = "mergePrune" /\ id \notin Ids(cNodes)
    /\ (pc = "mergePrune" /\ pc' = "return") => DOMAIN status' \subseteq Ids(cNodes)
C1_SSHStep ==
    /\ sStatus' # sStatus => SSHInMerge
    /\ \A id \in (DOMAIN sStatus) \ (DOMAIN sStatus') :
           sPc = "mergePrune" /\ id \notin Ids(scNodes)
    /\ (sPc = "mergePrune" /\ sPc' = "return") => DOMAIN sStatus' \subseteq Ids(scNodes)
C1_CachePrunedAtMerge == [][C1_PingStep /\ C1_SSHStep]_vars

\* an update has removed a device, its result is still in the cache, and the loop
\* is back in its disabled wait
C1_Witness ==
    /\ pc = "disabledWait"
    /\ posting = 0
    /\ \E id \in DOMAIN status : id \notin Ids(nodes)

(***************************************************************************)
(* C2: within one poller no two probes of the same device id execute at    *)
(* the same time (target sets hold each id once).                          *)
(***************************************************************************)
C2_OneProbePerDevice ==
    \A id \in AllIds : RunningPings(id) <= 1 /\ RunningChecks(id) <= 1

\* a probe is executing while a wake signal and a tick of the timer are both pending
C2_Witness ==
    \E id \in AllIds : RunningPings(id) = 1 /\ updateCh = 1 /\ tickerC = 1

(***************************************************************************)
(* C7: when the merge of a cycle has ended, the cache holds no id that was *)
(* absent from the target snapshot of that cycle (a device removed before  *)
(* the snapshot was taken), in both pollers.                               *)
(***************************************************************************)
C7_RemovedDevicePruned ==
    /\ pc = "return" => \A id \in DOMAIN cStatus \cup DOMAIN results \cup DOMAIN status :
                            id \notin Ids(cNodes) => id \notin DOMAIN status
    /\ sPc = "return" => \A id \in DOMAIN sResults \cup DOMAIN sStatus :
                            id \notin Ids(scNodes) => id \notin DOMAIN sStatus

\* the cycle found a cached result of a device that its target snapshot lacks
C7_Witness ==
    /\ pc = "return"
    /\ \E id \in DOMAIN cStatus : id \notin Ids(cNodes) /\ id \notin DOMAIN status
    /\ results = EmptyMap

(***************************************************************************)
(* C3: the Enabled flag that GetSettings returns is true exactly when some *)
(* device of the current target set has its ping-enabled flag set,         *)
(* whatever enabled value the policy or board passed in carried.           *)
(***************************************************************************)
SomePingFlagSet == \E k \in 1..Len(nodes) : nodes[k].PingEnabled = "true"
C3_EnabledFollowsTargetSet == GetSettings.Enabled = SomePingFlagSet

\* SetSettings(120) has acted on a target set without any enabled device
C3_Witness ==
    /\ nodes # <<>>
    /\ ~SomePingFlagSet
    /\ settings.IntervalSec = 120
    /\ ~GetSettings.Enabled

(***************************************************************************)
(* C4: the interval that GetSettings returns lies in [5, 3600], from       *)
(* construction on and after any update call with any interval.            *)
(***************************************************************************)
C4_IntervalInRange == GetSettings.IntervalSec >= 5 /\ GetSettings.IntervalSec <= 3600

\* a call with an interval outside the range has acted: the default with show-status
\* set comes from no other input
C4_Witness == settings.IntervalSec = 30 /\ settings.ShowStatus

(***************************************************************************)
(* C5: SetSettings with interval v leaves the interval v when              *)
(* 5 <= v <= 3600 and 30 otherwise.                                        *)
(***************************************************************************)
C5_Expected(v) == IF 5 <= v /\ v <= 3600 THEN v ELSE 30
C5_SetSettingsInterval ==
    [][\A s \in WidePolicies :
           SetSettings(s) => settings'.IntervalSec = C5_Expected(s.IntervalSec)]_vars

\* SetSettings(120) has acted
C5_Witness == settings.IntervalSec = 120

(***************************************************************************)
(* C6: a ping-enabled device of the cycle's target snapshot that has a     *)
(* cached result of time T and is evaluated at a time T' with T' - T < I   *)
(* (I its interval override when positive, else the global interval)       *)
(* starts no probe and gets no result in the cycle, and its cache entry is *)
(* the same after the merge; the merge overwrites only the entries of the  *)
(* devices that have a result of the cycle.                                *)
(***************************************************************************)
EffectiveInterval(node) ==
    IF node.PingIntervalSec > 0 THEN node.PingIntervalSec ELSE cSettings.IntervalSec
InsideInterval(node) ==
    /\ node.Type # "network"
    /\ node.PingEnabled = "true"
    /\ node.ID \in DOMAIN cStatus
    /\ now - cStatus[node.ID].LastChecked < EffectiveInterval(node)
\* the evaluation of a throttled device changes neither the probes nor the results
C6_Evaluation ==
    (pc = "fanout" /\ idx <= Len(cNodes) /\ idx' = idx + 1 /\ InsideInterval(cNodes[idx]))
        => (probes' = probes /\ results' = results)
\* an evaluated device that is still inside its interval has no probe and no result,
\* and its cache entry is the one the cycle found, before and after the merge
C6_Kept ==
    pc \in {"fanout", "mergeWrite", "mergePrune", "return"} =>
        \A k \in 1..Len(cNodes) :
            (k < idx /\ InsideInterval(cNodes[k])) =>
                /\ cNodes[k].ID \notin DOMAIN results
                /\ \A g \in BagToSet(probes) : g.nodeID # cNodes[k].ID
                /\ cNodes[k].ID \in DOMAIN status
                /\ status[cNodes[k].ID] = cStatus[cNodes[k].ID]
\* after the merge an entry without a result of the cycle is as the cycle found it
C6_OnlyResultsOverwritten ==
    pc = "return" =>
        \A id \in (DOMAIN status) \ (DOMAIN results) :
            id \in DOMAIN cStatus /\ status[id] = cStatus[id]
C6_Throttle ==
    /\ [][C6_Evaluation]_vars
    /\ [](C6_Kept /\ C6_OnlyResultsOverwritten)

\* a merge has ended that wrote the result of device 2 and kept the entry of device 1,
\* evaluated one second before its interval of 2 ran out
C6_Witness ==
    /\ pc = "return"
    /\ 1 \in DOMAIN cStatus
    /\ now - cStatus[1].LastChecked = 1
    /\ 1 \notin DOMAIN results
    /\ 2 \in DOMAIN results
    /\ 2 \in DOMAIN cStatus
    /\ status[1] = cStatus[1]
    /\ status[2] # cStatus[2]

(***************************************************************************)
(* C8: a ping-enabled device that is no segment, has no public, private or *)
(* overlay address and is not throttled gets, when the cycle evaluates it, *)
(* the result {online false, error "no ip", rtt 0, target ""} and no       *)
(* probe; the merge of that cycle puts this result into the cache.         *)
(***************************************************************************)
C8_NoAddress(node) ==
    /\ node.Type # "network"
    /\ node.PingEnabled = "true"
    /\ node.IPPublic = "" /\ node.IPPrivate = "" /\ node.IPTailscale = ""
C8_IsNoIP(res) ==
    res.Online = FALSE /\ res.Error = "no ip" /\ res.RTTMs = 0 /\ res.Target = ""
C8_Evaluation ==
    (/\ pc = "fanout" /\ idx <= Len(cNodes) /\ idx' = idx + 1
     /\ C8_NoAddress(cNodes[idx])
     /\ ~InsideInterval(cNodes[idx]))
        => /\ probes' = probes
           /\ cNodes[idx].ID \in DOMAIN results'
           /\ C8_IsNoIP(results'[cNodes[idx].ID])
           /\ results'[cNodes[idx].ID].LastChecked = now
C8_Merged ==
    \A k \in 1..Len(cNodes) :
        (k < idx /\ C8_NoAddress(cNodes[k])) =>
            /\ \A g \in BagToSet(probes) : g.nodeID # cNodes[k].ID
            /\ cNodes[k].ID \in DOMAIN results => C8_IsNoIP(results[cNodes[k].ID])
            /\ (pc = "return" /\ cNodes[k].ID \in DOMAIN results) =>
                   /\ cNodes[k].ID \in DOMAIN status
                   /\ status[cNodes[k].ID] = results[cNodes[k].ID]
            /\ (pc = "return" /\ cNodes[k].ID \notin DOMAIN cStatus) =>
                   /\ cNodes[k].ID \in DOMAIN status
                   /\ C8_IsNoIP(status[cNodes[k].ID])
C8_NoIPSynthesis == [][C8_Evaluation]_vars /\ []C8_Merged

\* the merge has ended of a cycle that evaluated device 2, without addresses, when
\* the interval of its cached result had run out
C8_Witness ==
    /\ pc = "return"
    /\ Len(cNodes) = 2
    /\ C8_NoAddress(cNodes[2])
    /\ 2 \in DOMAIN cStatus
    /\ 2 \in DOMAIN results
    /\ status[2].Error = "no ip"
    /\ status[2].LastChecked > cStatus[2].LastChecked

(***************************************************************************)
(* C9: at every instant at most 8 pingTarget calls are executing in the    *)
(* reachability poller and at most 6 checkNode calls in the liveness       *)
(* poller, also when the target set holds more enabled devices than that.  *)
(***************************************************************************)
C9_PoolBound == Running(probes) <= 8 /\ Running(sProbes) <= 6

\* eight probes are executing and a ninth goroutine of the cycle waits for a place
C9_Witness ==
    /\ Running(probes) = 8
    /\ \E g \in BagToSet(probes) : g.st = "queued"

(***************************************************************************)
(* C10: the map a GetStatus call returns is the whole cache as it stands   *)
(* outside a merge: while a cycle runs, the cache the cycle found (before  *)
(* its merge) or that cache with every result of the cycle written and     *)
(* every id outside the target snapshot deleted (after its merge), never   *)
(* one with a part of the results or of the deletions.                     *)
(***************************************************************************)
C10_Merged(before, written, keep) ==
    [id \in ((DOMAIN before) \cup (DOMAIN written)) \cap keep |->
        IF id \in DOMAIN written THEN written[id] ELSE before[id]]
C10_PingWhole(st) ==
    /\ ~InMerge
    /\ pc \in {"snapSettings", "fanout"} => st = cStatus
    /\ pc = "return" => st = C10_Merged(cStatus, results, Ids(cNodes))
C10_SSHWhole(st) ==
    /\ ~SSHInMerge
    /\ sPc = "return" =>
           /\ DOMAIN st \subseteq Ids(scNodes)
           /\ \A id \in (DOMAIN sResults) \cap Ids(scNodes) :
                  id \in DOMAIN st /\ st[id] = sResults[id]
C10_Return ==
    /\ (rpc = "reading" /\ rpc' = "copied") => (got' = status /\ C10_PingWhole(got'))
    /\ (sRpc = "reading" /\ sRpc' = "copied") => (sGot' = sStatus /\ C10_SSHWhole(sGot'))
\* what a call has copied so far is a part of one cache, and no merge runs meanwhile
C10_Copying ==
    /\ rpc = "reading" =>
           /\ ~InMerge
           /\ \A id \in DOMAIN got : id \in DOMAIN status /\ got[id] = status[id]
    /\ sRpc = "reading" =>
           /\ ~SSHInMerge
           /\ \A id \in DOMAIN sGot : id \in DOMAIN sStatus /\ sGot[id] = sStatus[id]
C10_MergeAtomicForReaders == [][C10_Return]_vars /\ []C10_Copying

\* a call returned the cache after a merge that wrote the result of device 1 and
\* deleted device 2
C10_Witness ==
    /\ rpc = "copied"
    /\ pc = "return"
    /\ 2 \in DOMAIN cStatus
    /\ 2 \notin DOMAIN got
    /\ 1 \in DOMAIN results
    /\ 1 \in DOMAIN cStatus
    /\ 1 \in DOMAIN got
    /\ got[1] = results[1]
    /\ got[1] # cStatus[1]

(***************************************************************************)
(* C11: the wake channel of either poller never holds more than one        *)
(* signal; signalUpdate stores a signal when the channel is empty, changes *)
(* nothing when it is full, and can always be taken by its caller,         *)
(* whatever the loop is doing.                                             *)
(***************************************************************************)
C11_AtMostOne ==
    /\ updateCh \in {0, 1}
    /\ sUpdateCh \in {0, 1}
C11_NeverBlocks ==
    /\ posting > 0 => ENABLED signalUpdate
    /\ sPosting > 0 => ENABLED SSHsignalUpdate
C11_Post ==
    /\ posting' = posting - 1 =>
           /\ updateCh' = 1
           /\ updateCh = 1 => UNCHANGED <<now, mgr, srvVars, settings, nodes, status,
                   updateCh, mu,
                                          rpc, got, loopVars, cycleVars, sshVars>>
    /\ sPosting' = sPosting - 1 =>
           /\ sUpdateCh' = 1
           /\ sUpdateCh = 1 => UNCHANGED <<now, mgr, srvVars, pingVars, sSharedVars, sRpc, sGot,
                                           sLoopVars, sCycleVars>>
C11_CoalescedWake == [](C11_AtMostOne /\ C11_NeverBlocks) /\ [][C11_Post]_vars

\* the channel is full and a caller is about to post while the loop is merging
C11_Witness ==
    /\ updateCh = 1
    /\ posting = 1
    /\ InMerge

(***************************************************************************)
(* C12: under fair scheduling, after every update call the loop of the     *)
(* poller reads the poller's state again (the reachability loop m.settings *)
(* at the top of its for, the liveness loop m.nodes in runCheck), also     *)
(* when the post of the update found a signal pending and when the update  *)
(* came while a cycle was running.                                         *)
(***************************************************************************)
C12_NoUpdateLost == (unseen ~> ~unseen) /\ (sUnseen ~> ~sUnseen)

\* an update has written while a cycle is running and a signal is pending already,
\* so that its post will change nothing
C12_Witness ==
    /\ unseen
    /\ posting = 1
    /\ updateCh = 1
    /\ pc = "fanout"

(***************************************************************************)
(* C13: the map GetStatus returns is a copy.  A caller that deletes from   *)
(* it, adds to it or overwrites an entry of it leaves the cache of the     *)
(* poller as it is; a merge leaves a map that a caller holds as it is; and *)
(* a call made after such a change returns the cache, without the change.  *)
(***************************************************************************)
C13_Held == IF ReturnedMap = "copyMap" THEN got ELSE status
C13_SSHHeld == IF SSHReturnedMap = "copyMap" THEN sGot ELSE sStatus
C13_Step ==
    /\ (rpc = "copied" /\ rpc' = "edited") => (status' = status /\ C13_Held' # C13_Held)
    /\ (rpc \in {"copied", "edited"} /\ rpc' = rpc) => C13_Held' = C13_Held
    /\ (rpc = "reading" /\ rpc' = "copied") => C13_Held' = status
    /\ (sRpc = "copied" /\ sRpc' = "edited") =>
           (sStatus' = sStatus /\ C13_SSHHeld' # C13_SSHHeld)
    /\ (sRpc \in {"copied", "edited"} /\ sRpc' = sRpc) => C13_SSHHeld' = C13_SSHHeld
    /\ (sRpc = "reading" /\ sRpc' = "copied") => C13_SSHHeld' = sStatus
\* no value a caller has stored in its copy is ever in a cache
C13_CacheClean ==
    /\ \A id \in DOMAIN status : status[id] # ForgedResult
    /\ \A id \in DOMAIN sStatus : sStatus[id] # ForgedStatus
    /\ DOMAIN status \cap EditKeys = {}
    /\ DOMAIN sStatus \cap EditKeys = {}
C14_Eligible(node) == node.Type # "network" /\ node.ConnectEnabled
C14_Step ==
    /\ (/\ sPc = "fanout" /\ sIdx <= Len(scNodes) /\ sIdx' = sIdx + 1
        /\ C14_Eligible(scNodes[sIdx]))
           => /\ BagCardinality(sProbes') = BagCardinality(sProbes) + 1
              /\ \E g \in BagToSet(sProbes') : g.node = scNodes[sIdx] /\ g.st = "queued"
    /\ \A g \in BagToSet(sProbes') \ BagToSet(sProbes) :
           g.st = "running" => g.result.LastChecked = now
    /\ \A id \in (DOMAIN sResults') \ (DOMAIN sResults) :
           \E g \in BagToSet(sProbes) :
               /\ g.st = "running" /\ g.node.ID = id
               /\ sResults'[id].LastChecked = g.result.LastChecked
C14_Merged ==
    sPc = "return" =>
        \A k \in 1..Len(scNodes) :
            C14_Eligible(scNodes[k]) =>
                /\ scNodes[k].ID \in DOMAIN sResults
                /\ scNodes[k].ID \in DOMAIN sStatus
                /\ sStatus[scNodes[k].ID] = sResults[scNodes[k].ID]
                /\ sStatus[scNodes[k].ID].LastChecked <= now
C14_EveryEnabledDeviceChecked == [][C14_Step]_vars /\ []C14_Merged

\* the merge has ended of a cycle that the timer started and that checked both
\* devices, the second of them without an address
C14_Witness ==
    /\ sPc = "return"
    /\ Len(scNodes) = 2
    /\ C14_Eligible(scNodes[1]) /\ C14_Eligible(scNodes[2])
    /\ sStatus[1].LastChecked = 30
    /\ sStatus[2].LastChecked = 30

(***************************************************************************)
(* C15: the result of a liveness probe.  A read error of the provider      *)
(* gives {online false, error: its text}; not found gives {online false,   *)
(* error "settings not found"}; with an empty stored host the device's own *)
(* address is the host, the public one before the private one before the  *)
(* overlay one, and without any address the result is {online false} with  *)
(* an error text; online is true only when the dial and handshake with the *)
(* host succeeded, and then the error is empty.                            *)
(***************************************************************************)
C15_OwnAddress(node) ==
    CASE node.IPPublic # "" -> node.IPPublic
      [] node.IPPublic = "" /\ node.IPPrivate # "" -> node.IPPrivate
      [] node.IPPublic = "" /\ node.IPPrivate = "" -> node.IPTailscale
C15_Stripped(str) ==
    CASE str = " " -> ""
      [] str = " 203.0.113.5 " -> "203.0.113.5"
      [] OTHER -> str
C15_Succeeds(dial, host) == host \in DOMAIN dial /\ dial[host] = ""
C15_Expected(node, look, dial, res) ==
    LET found == look.provider /\ look.err = "" /\ look.ok
        stored == look.settings.Host
        host == IF stored = "" THEN C15_OwnAddress(node) ELSE C15_Stripped(stored)
        usable == /\ C15_Stripped(look.settings.Username) # ""
                  /\ look.settings.Password # ""
    IN  /\ res.Online => res.Error = ""
        /\ (look.provider /\ look.err # "") => (~res.Online /\ res.Error = look.err)
        /\ (look.provider /\ look.err = "" /\ ~look.ok) =>
               (~res.Online /\ res.Error = "settings not found")
        /\ (found /\ stored = "" /\ C15_OwnAddress(node) = "") =>
               (~res.Online /\ res.Error # "")
        /\ (found /\ stored = "" /\ C15_OwnAddress(node) # "" /\ usable) =>
               (res.Online <=> C15_Succeeds(dial, C15_OwnAddress(node)))
        /\ res.Online => (found /\ C15_Succeeds(dial, host))
C16_Failed == \E id \in DOMAIN results : ~results[id].Online
C16_SSHFailed == \E id \in DOMAIN sResults : ~sResults[id].Online
C16_OthersKept(before, after, id) ==
    /\ DOMAIN after = (DOMAIN before) \cup {id}
    /\ \A j \in (DOMAIN before) \ {id} : after[j] = before[j]
C16_PingStep ==
    (pc = "fanout" /\ probes' # probes /\ results' # results) =>
        \E g \in BagToSet(probes) :
            /\ g.st = "running"
            /\ probes' = probes (-) SetToBag({g})
            /\ C16_OthersKept(results, results', g.nodeID)
            /\ \E run \in CommandRuns :
                   results'[g.nodeID] = pingTarget(g.target, g.result.LastChecked, run)
C16_SSHStep ==
    (sPc = "fanout" /\ sProbes' # sProbes /\ sResults' # sResults) =>
        \E g \in BagToSet(sProbes) :
            /\ g.st = "running"
            /\ sProbes' = sProbes (-) SetToBag({g})
            /\ C16_OthersKept(sResults, sResults', g.node.ID)
            /\ \E look \in Lookups, dial \in Dials :
                   sResults'[g.node.ID] =
                       checkNode(g.node, g.result.LastChecked, look, dial)
C16_Merge ==
    /\ (pc = "mergeWrite" /\ pc' = "mergePrune") =>
           \A id \in DOMAIN results : status'[id] = results[id]
    /\ (sPc = "mergeWrite" /\ sPc' = "mergePrune") =>
           \A id \in DOMAIN sResults : sStatus'[id] = sResults[id]
C16_OwnTarget ==
    \A id \in DOMAIN results :
        \E k \in 1..Len(cNodes) :
            cNodes[k].ID = id /\ results[id].Target = pickTarget(cNodes[k])
C16_FailureIsolation ==
    /\ [][C16_PingStep /\ C16_SSHStep /\ C16_Merge]_vars
    /\ []C16_OwnTarget
    /\ ((pc = "fanout" /\ C16_Failed) ~> (pc = "mergeWrite" /\ C16_Failed))
    /\ ((pc = "mergeWrite") ~> (pc \in {"armedWait", "disabledWait"}))
    /\ ((sPc = "fanout" /\ C16_SSHFailed) ~> (sPc = "mergeWrite" /\ C16_SSHFailed))
    /\ ((sPc = "mergeWrite") ~> (sPc = "select"))
\* a merge of two results of one cycle, one of a failed and one of a successful probe
C16_Witness ==
    \/ /\ pc = "mergePrune"
       /\ DOMAIN results = {1, 3}
       /\ ~results[1].Online /\ results[3].Online
       /\ ~status[1].Online /\ status[3].Online
    \/ /\ sPc = "mergePrune"
       /\ DOMAIN sResults = {1, 3}
       /\ ~sResults[1].Online /\ sResults[3].Online
       /\ ~sStatus[1].Online /\ sStatus[3].Online


(***************************************************************************)
(* C17  Segments are never probed.  In both pollers no probe goroutine of  *)
(* a cycle is for a node whose type in the cycle's snapshot is "network",  *)
(* the results map of the cycle has no entry for such a node, and the      *)
(* merge leaves the cache as it was at the key of such a node, whatever    *)
(* the node's flags and addresses are.                                     *)
(***************************************************************************)
C17_Segments(ns) == {ns[k].ID : k \in {j \in 1..Len(ns) : ns[j].Type = "network"}}
C17_NoProbe ==
    /\ \A g \in BagToSet(probes) : g.nodeID \notin C17_Segments(cNodes)
    /\ (DOMAIN results) \cap C17_Segments(cNodes) = {}
    /\ \A g \in BagToSet(sProbes) : g.node.ID \notin C17_Segments(scNodes)
    /\ (DOMAIN sResults) \cap C17_Segments(scNodes) = {}
C17_Untouched(before, after, ids) ==
    \A id \in ids :
        /\ id \in DOMAIN after <=> id \in DOMAIN before
        /\ id \in DOMAIN before => after[id] = before[id]
C17_Merge ==
    /\ pc = "mergeWrite" => C17_Untouched(status, status', C17_Segments(cNodes))
    /\ sPc = "mergeWrite" => C17_Untouched(sStatus, sStatus', C17_Segments(scNodes))
C17_SegmentsNeverProbed == []C17_NoProbe /\ [][C17_Merge]_vars
\* the merge of a cycle whose snapshot holds a segment that is enabled and has an address
C17_Witness ==
    \/ /\ pc = "mergePrune"
       /\ \E k \in 1..Len(cNodes) :
              /\ cNodes[k].Type = "network"
              /\ isPingEnabled(cNodes[k])
              /\ pickTarget(cNodes[k]) # ""
    \/ /\ sPc = "mergePrune"
       /\ \E k \in 1..Len(scNodes) :
              /\ scNodes[k].Type = "network"
              /\ scNodes[k].ConnectEnabled
              /\ pickTarget(scNodes[k]) # ""


(***************************************************************************)
(* C18  Automatic retry.  When a cycle started by a tick comes to a device *)
(* whose latest probe failed in a cycle started by a tick, and the device  *)
(* is in the snapshot, ping-enabled, has an address, and its effective     *)
(* interval is not larger than the period of the ticker, the cycle starts  *)
(* a probe for it: the throttle test does not pass it over.                *)
(***************************************************************************)
C18_Due(node) ==
    /\ node.ID \in owed
    /\ ~Skipped(node)
    /\ pickTarget(node) # ""
    /\ intervalForNode(node, cSettings.IntervalSec) <= ticker.period
C18_Step ==
    (/\ pc = "fanout"
     /\ idx <= Len(cNodes)
     /\ idx' = idx + 1
     /\ cause = "tick"
     /\ C18_Due(cNodes[idx])) => probes' # probes
C18_RetriedNextScheduledCycle == [][C18_Step]_vars
\* a cycle started by a tick has passed over the device whose probe failed in the
\* cycle of the tick before
C18_Witness ==
    /\ pc = "fanout"
    /\ cause = "tick"
    /\ Len(cNodes) = 1
    /\ idx = 2
    /\ C18_Due(cNodes[1])
    /\ probes = EmptyBag
    /\ results = EmptyMap
    /\ ~cStatus[1].Online
    /\ now - cStatus[1].LastChecked < ticker.period


(***************************************************************************)
(* C19  Frame of the update operations.  UpdateNodes stores the new target *)
(* set and the enabled value computed from it, and leaves IntervalSec and  *)
(* ShowStatus as they were.  SetSettings stores the caller's interval      *)
(* (30 when outside 5..3600) and show-status and the enabled value         *)
(* computed from the target set, and leaves the target set as it was.      *)
(* UpdateFromBoard stores the target set, interval, show-status and the    *)
(* enabled value of the new target set in one step, so whenever the read   *)
(* lock can be had the enabled value read is that of the target set read,  *)
(* and the settings a cycle takes are m.settings as a whole.               *)
(***************************************************************************)
C19_Flag(ns) == \E k \in 1..Len(ns) : ns[k].PingEnabled = "true"
C19_Interval(v) == IF v < 5 \/ v > 3600 THEN 30 ELSE v
C19_UpdateNodes ==
    \A ns \in FrameTargetSets :
        UpdateNodes(ns) =>
            /\ nodes' = ns
            /\ settings'.Enabled = C19_Flag(ns)
            /\ settings'.IntervalSec = settings.IntervalSec
            /\ settings'.ShowStatus = settings.ShowStatus
C19_SetSettings ==
    \A s \in FramePolicies :
        SetSettings(s) =>
            /\ nodes' = nodes
            /\ settings'.Enabled = C19_Flag(nodes)
            /\ settings'.IntervalSec = C19_Interval(s.IntervalSec)
            /\ settings'.ShowStatus = s.ShowStatus
C19_UpdateFromBoard ==
    \A b \in FrameBoards :
        UpdateFromBoard(b) =>
            /\ nodes' = b.Nodes
            /\ settings' = MonitoringSettings(C19_Flag(b.Nodes),
                                              C19_Interval(b.Monitoring.IntervalSec),
                                              b.Monitoring.ShowStatus)
C19_Snapshot == (pc = "snapSettings" /\ pc' = "fanout") => cSettings' = settings
C19_Observed == RLockFree => GetSettings.Enabled = C19_Flag(nodes)
C19_UpdateFrame ==
    /\ [][/\ posting' > posting =>
                  C19_UpdateNodes /\ C19_SetSettings /\ C19_UpdateFromBoard
            /\ C19_Snapshot]_vars
    /\ []C19_Observed
\* a board whose policy says disabled, with an enabled device, has been installed and
\* a cycle has taken its settings
C19_Witness ==
    /\ nodes = <<Pingable(1)>>
    /\ settings = MonitoringSettings(TRUE, 5, FALSE)
    /\ pc = "fanout"
    /\ cSettings = settings


(***************************************************************************)
(* C20  No poller lock is held while a probe executes.  From the end of    *)
(* the snapshots to wg.Wait() the loop holds no lock of its poller; so     *)
(* while probes are in flight a call of GetStatus can take the read lock   *)
(* and go on to its return, and an update call is held up by nothing but a *)
(* reader inside GetStatus.                                                *)
(***************************************************************************)
C20_LockFree ==
    /\ (pc = "fanout" \/ probes # EmptyBag) => mu = "free"
    /\ (sPc = "fanout" \/ sProbes # EmptyBag) => sMu = "free"
C20_PingCalls ==
    (mgr = "ping" /\ probes # EmptyBag) =>
        /\ RLockFree
        /\ rpc = "idle" => ENABLED GetStatus
        /\ rpc = "reading" => ENABLED (GetStatusCopy \/ GetStatusReturn)
        /\ (rpc # "reading" /\ posting < MaxPosting) =>
               \A b \in ReadBoards : ENABLED UpdateFromBoard(b)
C20_SSHCalls ==
    (mgr = "ssh" /\ sProbes # EmptyBag) =>
        /\ sRpc = "idle" => ENABLED SSHGetStatus
        /\ sRpc = "reading" => ENABLED (SSHGetStatusCopy \/ SSHGetStatusReturn)
        /\ (sRpc # "reading" /\ sPosting < MaxPosting) =>
               \A ns \in ReadTargetSets : ENABLED SSHUpdateNodes(ns)
C20_NoLockWhileProbing == C20_LockFree /\ C20_PingCalls /\ C20_SSHCalls
\* a probe has been running while the clock went on, and meanwhile a caller of
\* GetStatus has its map and an update call has stored its data
C20_Witness ==
    \/ /\ \E g \in BagToSet(probes) : g.st = "running" /\ now > g.result.LastChecked
       /\ rpc = "copied"
       /\ unseen
    \/ /\ \E g \in BagToSet(sProbes) : g.st = "running" /\ now > g.result.LastChecked
       /\ sRpc = "copied"
       /\ sUnseen


(***************************************************************************)
(* C21  An enabling update wakes a cycle.  When the loop has taken the     *)
(* wake signal in its disabled select and finds Enabled true at the top of *)
(* the for, it runs a probe cycle: it does not go to the armed select to   *)
(* wait for the first tick of the ticker it has just made.                 *)
(***************************************************************************)
C21_Step ==
    (pc = "top" /\ cause = "woken" /\ settings.Enabled /\ pc' # pc) =>
        pc' \notin {"armedWait", "disabledWait"}
C21_EnablingUpdateRunsCycle == [][C21_Step]_vars
\* the loop waits in the armed select for the first tick: the target set is enabled,
\* the signal is taken, no update call is under way, and no cycle has run
C21_Witness ==
    /\ pc = "armedWait"
    /\ settings.Enabled
    /\ nodes = <<Pingable(1)>>
    /\ updateCh = 0
    /\ posting = 0
    /\ ticker # NoTicker
    /\ tickerC = 0
    /\ status = EmptyMap


(***************************************************************************)
(* C22  A cycle is started only while Enabled is true.  At the step by     *)
(* which the loop leaves a select or the isEnabled test to enter           *)
(* runPingCycle, m.settings.Enabled is true.                               *)
(***************************************************************************)
C22_Step == (pc # "snapNodes" /\ pc' = "snapNodes") => settings.Enabled
C22_CycleOnlyWhileEnabled == [][C22_Step]_vars
\* runPingCycle has been entered from the tick case while Enabled is false
C22_Witness ==
    /\ pc = "snapNodes"
    /\ cause = "tick"
    /\ ~settings.Enabled
    /\ ~anyPingEnabled(nodes)


(***************************************************************************)
(* C23  At most one cycle of a poller executes at any instant.  While the  *)
(* loop is inside runPingCycle (runCheck) no case of a select can be       *)
(* taken, whatever ticks and signals wait in the channels; and a cycle is  *)
(* entered only from a select or the isEnabled test, with no probe of an   *)
(* earlier cycle in flight and the poller's lock not held by the loop.     *)
(***************************************************************************)
C23_Running ==
    pc \in {"snapNodes", "snapStatus", "snapSettings", "fanout", "mergeWrite",
            "mergePrune", "return"}
C23_SSHRunning == sPc \in {"snapNodes", "fanout", "mergeWrite", "mergePrune", "return"}
C23_Entry ==
    /\ (pc # "snapNodes" /\ pc' = "snapNodes") =>
           /\ pc \in {"armedWait", "isEnabled"}
           /\ probes = EmptyBag /\ sem = 0 /\ mu = "free"
    /\ (sPc # "snapNodes" /\ sPc' = "snapNodes") =>
           /\ sPc = "select"
           /\ sProbes = EmptyBag /\ sSem = 0 /\ sMu = "free"
C23_NoSelect ==
    /\ C23_Running => ~ENABLED ArmedTick /\ ~ENABLED ArmedSignal
    /\ C23_SSHRunning => ~ENABLED SSHTick /\ ~ENABLED SSHSignal
    /\ probes # EmptyBag => pc = "fanout"
    /\ sProbes # EmptyBag => sPc = "fanout"
C23_OneCycleAtATime == []C23_NoSelect /\ [][C23_Entry]_vars
\* probes of a cycle are in flight while a tick and a wake signal wait in the channels
C23_Witness ==
    \/ probes # EmptyBag /\ tickerC = 1 /\ updateCh = 1
    \/ sProbes # EmptyBag /\ sTickerC = 1 /\ sUpdateCh = 1


(***************************************************************************)
(* C24  Cycle barrier.  A device the fan-out has not passed over is from   *)
(* then on accounted for: it has a probe in flight or an entry in the      *)
(* results map of the cycle.  The merge begins with no probe in flight,    *)
(* so with an entry for every such device; it stores each entry of the     *)
(* results map under its key and changes no other key; and the cache       *)
(* changes in no step outside the merge.                                   *)
(***************************************************************************)
C24_Accounted == (DOMAIN results) \cup {g.nodeID : g \in BagToSet(probes)}
C24_SSHAccounted == (DOMAIN sResults) \cup {g.node.ID : g \in BagToSet(sProbes)}
C24_Written(before, after, written) ==
    /\ \A id \in DOMAIN written : id \in DOMAIN after /\ after[id] = written[id]
    /\ \A id \in (DOMAIN after) \ (DOMAIN written) :
           id \in DOMAIN before /\ after[id] = before[id]
C24_PingStep ==
    /\ (pc = "fanout" /\ pc' = "fanout") =>
           /\ C24_Accounted \subseteq (DOMAIN results') \cup {g.nodeID : g \in BagToSet(probes')}
           /\ (/\ idx' = idx + 1
               /\ ~Skipped(cNodes[idx])
               /\ ~Throttled(cNodes[idx], cStatus, cSettings.IntervalSec, now)) =>
                  cNodes[idx].ID \in (DOMAIN results') \cup {g.nodeID : g \in BagToSet(probes')}
    /\ (pc = "fanout" /\ pc' = "mergeWrite") => (probes = EmptyBag /\ results' = results)
    /\ (pc = "mergeWrite" /\ pc' = "mergePrune") => C24_Written(status, status', results)
    /\ status' # status => InMerge
C24_SSHStep ==
    /\ (sPc = "fanout" /\ sPc' = "fanout") =>
           /\ C24_SSHAccounted \subseteq
                  (DOMAIN sResults') \cup {g.node.ID : g \in BagToSet(sProbes')}
           /\ (sIdx' = sIdx + 1 /\ ~SSHSkipped(scNodes[sIdx])) =>
                  scNodes[sIdx].ID \in
                      (DOMAIN sResults') \cup {g.node.ID : g \in BagToSet(sProbes')}
    /\ (sPc = "fanout" /\ sPc' = "mergeWrite") => (sProbes = EmptyBag /\ sResults' = sResults)
    /\ (sPc = "mergeWrite" /\ sPc' = "mergePrune") => C24_Written(sStatus, sStatus', sResults)
    /\ sStatus' # sStatus => SSHInMerge
C24_NoneInFlight ==
    /\ pc \in {"mergeWrite", "mergePrune", "return"} => probes = EmptyBag
    /\ sPc \in {"mergeWrite", "mergePrune", "return"} => sProbes = EmptyBag
C24_CycleBarrier == []C24_NoneInFlight /\ [][C24_PingStep /\ C24_SSHStep]_vars
\* the merge of a cycle has stored the results of a probe and of a synthesized entry
C24_Witness ==
    \/ /\ pc = "mergePrune"
       /\ DOMAIN results = {1, 2}
       /\ results[1].Target # "" /\ results[2].Error = "no ip"
       /\ status[1] = results[1] /\ status[2] = results[2]
    \/ /\ sPc = "mergePrune"
       /\ DOMAIN sResults = {1, 2}
       /\ sStatus[1] = sResults[1] /\ sStatus[2] = sResults[2]


(***************************************************************************)
(* C25  Every cycle completes.  Given that every probe returns, a cycle    *)
(* that has been entered completes its merge and the loop comes back to a  *)
(* select, with more devices than the pool has places and with callers of  *)
(* GetStatus and of the update operations beside it.  Inside a cycle some  *)
(* goroutine of the poller can take a step, or the loop waits for the lock *)
(* that a caller inside GetStatus holds; outside a cycle the loop can take *)
(* a step or is blocked in a select: it has no other place to stop.        *)
(***************************************************************************)
C25_InCycle ==
    pc \in {"snapNodes", "snapStatus", "snapSettings", "fanout", "mergeWrite",
            "mergePrune", "return"}
C25_SSHInCycle == sPc \in {"snapNodes", "fanout", "mergeWrite", "mergePrune", "return"}
C25_NoDeadlock ==
    /\ mgr = "ping" =>
           \/ ENABLED BusyPingLoop
           \/ C25_InCycle /\ rpc = "reading" /\ ENABLED BusyReader
           \/ ~C25_InCycle /\ pc \in {"armedWait", "disabledWait"}
    /\ mgr = "ssh" =>
           \/ ENABLED BusySSHLoop
           \/ C25_SSHInCycle /\ sRpc = "reading" /\ ENABLED BusySSHReader
           \/ ~C25_SSHInCycle /\ sPc = "select"
C25_CycleCompletes ==
    /\ []C25_NoDeadlock
    /\ (pc = "snapNodes") ~> (pc = "mergePrune")
    /\ (pc = "mergePrune") ~> (pc \in {"armedWait", "disabledWait"})
    /\ (sPc = "snapNodes") ~> (sPc = "mergePrune")
    /\ (sPc = "mergePrune") ~> (sPc = "select")
\* more probes than the pool has places: the pool is full and a probe waits for a place
\* while a caller is inside GetStatus and an update call is under way
C25_Witness ==
    \/ /\ sem = PingPoolSize
       /\ \E g \in BagToSet(probes) : g.st = "queued"
       /\ rpc = "reading"
       /\ posting > 0
    \/ /\ sSem = SSHPoolSize
       /\ \E g \in BagToSet(sProbes) : g.st = "queued"
       /\ sRpc = "reading"
       /\ sPosting > 0


(***************************************************************************)
(* C26  Bursts collapse.  An update call that ends while a cycle executes  *)
(* leaves one signal in the channel, and the channel holds that one signal *)
(* until the cycle is over, however many more calls end meanwhile.  The    *)
(* loop takes the signal in a select, which empties the channel: one       *)
(* iteration is started by it (in the liveness poller one runCheck).  The  *)
(* snapshot of an iteration is the target set stored at that moment.       *)
(***************************************************************************)
C26_InCycle ==
    pc \in {"snapNodes", "snapStatus", "snapSettings", "fanout", "mergeWrite",
            "mergePrune", "return"}
C26_SSHInCycle == sPc \in {"snapNodes", "fanout", "mergeWrite", "mergePrune", "return"}
C26_PingStep ==
    /\ (C26_InCycle /\ posting' < posting) => updateCh' = 1
    /\ (C26_InCycle /\ updateCh = 1) => updateCh' = 1
    /\ (updateCh = 1 /\ updateCh' # 1) =>
           /\ updateCh' = 0
           /\ pc \in {"armedWait", "disabledWait"}
           /\ pc' \in {"isEnabled", "top"}
    /\ (pc = "snapNodes" /\ pc' = "snapStatus") => cNodes' = nodes
C26_SSHStep ==
    /\ (C26_SSHInCycle /\ sPosting' < sPosting) => sUpdateCh' = 1
    /\ (C26_SSHInCycle /\ sUpdateCh = 1) => sUpdateCh' = 1
    /\ (sUpdateCh = 1 /\ sUpdateCh' # 1) =>
           (sUpdateCh' = 0 /\ sPc = "select" /\ sPc' = "snapNodes")
    /\ (sPc = "select" /\ sPc' = "snapNodes" /\ sTickerC' = sTickerC) =>
           (sUpdateCh = 1 /\ sUpdateCh' = 0)
    /\ (sPc = "snapNodes" /\ sPc' = "fanout") => scNodes' = sNodes
C27_Armed ==
    pc = "armedWait" =>
        /\ ticker # NoTicker
        /\ ticker.period = currentInterval
        /\ ticker.period > 0
C27_Stopped ==
    pc = "disabledWait" =>
        /\ ticker = NoTicker
        /\ tickerC = 0
        /\ currentInterval = 0
        /\ ~ENABLED ArmedTick
C27_Arming ==
    (pc = "top" /\ pc' = "armedWait") =>
        /\ ticker'.period = settings.IntervalSec
        /\ IF ticker # NoTicker /\ ticker.period = settings.IntervalSec
           THEN UNCHANGED <<ticker, tickerC>>
           ELSE /\ ticker' = [period |-> settings.IntervalSec,
                              next |-> now + settings.IntervalSec]
                /\ tickerC' = 0
C27_Kept ==
    pc # "top" => /\ (ticker' = NoTicker) = (ticker = NoTicker)
                  /\ ticker'.period = ticker.period
C27_TimerCadence == [](C27_Armed /\ C27_Stopped) /\ [][C27_Arming /\ C27_Kept]_vars
\* the loop waits on a ticker of the shortest period that it built after the clock had moved
C27_Witness ==
    /\ pc = "armedWait"
    /\ now > 0
    /\ ticker = [period |-> MinIntervalSec, next |-> now + MinIntervalSec]

(***************************************************************************)
(* C28.  The address a probe is sent to is the first non-empty one of the  *)
(* device's public, private and overlay addresses, in that order; the      *)
(* result of the probe, and the cache entry the merge makes of it, carry   *)
(* that address in Target.                                                 *)
(***************************************************************************)
C28_Address(node) ==
    LET addr == <<node.IPPublic, node.IPPrivate, node.IPTailscale>>
        present == {k \in 1..3 : addr[k] # ""}
    IN  IF present = {} THEN ""
        ELSE addr[CHOOSE k \in present : \A j \in present : k <= j]
C28_Device(id) == CHOOSE node \in {cNodes[k] : k \in 1..Len(cNodes)} : node.ID = id
\* the probe that the evaluation of a device starts goes to the device's address
C28_Started ==
    (pc = "fanout" /\ idx' = idx + 1) =>
        \A g \in BagToSet(probes') \ BagToSet(probes) :
            /\ g.nodeID = cNodes[idx].ID
            /\ g.target # ""
            /\ g.target = C28_Address(cNodes[idx])
\* a result that enters the results of the cycle names the address of its device
C28_Result ==
    \A id \in DOMAIN results' :
        (id \notin DOMAIN results \/ results'[id] # results[id]) =>
            /\ results'[id].Target = C28_Address(C28_Device(id))
            /\ \A g \in BagToSet(probes) \ BagToSet(probes') :
                    g.nodeID = id => results'[id].Target = g.target
\* the merge stores the results with their Target
C28_Cached ==
    (pc = "mergeWrite" /\ pc' = "mergePrune") =>
        \A id \in DOMAIN results :
            /\ id \in DOMAIN status'
            /\ status'[id].Target = C28_Address(C28_Device(id))
C28_TargetByPriority == [][C28_Started /\ C28_Result /\ C28_Cached]_vars
\* the cache holds a result of a probe sent to the overlay address, and one sent to a
\* private address
C28_Witness ==
    \E i, j \in DOMAIN status :
        /\ status[i].Target = "100.64.0.7" /\ status[i].Error # "no ip"
        /\ status[j].Target = "10.0.0.7"

(***************************************************************************)
(* C29.  Every entry of the reachability cache that is online has an empty *)
(* error, and every entry that is not online has the error "timeout",      *)
(* "unreachable" or "no ip".  A probe whose deadline has passed gives      *)
(* online=false with "timeout", whatever the exit status of the command;   *)
(* a probe that returned in time without error gives online=true; a probe  *)
(* that returned in time with an error gives online=false with             *)
(* "unreachable".                                                          *)
(***************************************************************************)
C29_WellFormed(r) ==
    /\ r.Online => r.Error = ""
    /\ ~r.Online => r.Error \in {"timeout", "unreachable", "no ip"}
C29_Cache == \A id \in DOMAIN status : C29_WellFormed(status[id])
C29_Outcome(run) ==
    IF run.deadlineExceeded THEN <<FALSE, "timeout">>
    ELSE IF ~run.failed THEN <<TRUE, "">>
    ELSE <<FALSE, "unreachable">>
C29_Classified ==
    \A g \in BagToSet(probes), run \in WideRuns :
        ProbeReturn(g, run) =>
            <<results'[g.nodeID].Online, results'[g.nodeID].Error>> = C29_Outcome(run)
C29_ResultClassification == []C29_Cache /\ [][C29_Classified]_vars
\* the cache holds a result of a probe that ran into its deadline beside one of a probe
\* that succeeded
C29_Witness ==
    \E i, j \in DOMAIN status :
        /\ status[i].Error = "timeout" /\ ~status[i].Online
        /\ status[j].Online /\ status[j].Error = ""

(***************************************************************************)
(* C30.  The interval of the throttle test of a device is the device's     *)
(* override when that is positive, as it is given and also outside         *)
(* 5..3600; else the policy interval when that is positive; else 30.  It   *)
(* is positive.  The cycle skips an enabled device for its interval, and   *)
(* for no other reason, exactly when the device has a cached result        *)
(* younger than this interval.  (The policy interval a cycle reads is      *)
(* always in 5..3600; the function is compared on other fallbacks too.)    *)
(***************************************************************************)
C30_Interval(node, policy) ==
    IF node.PingIntervalSec > 0 THEN node.PingIntervalSec
    ELSE IF policy > 0 THEN policy
    ELSE DefaultIntervalSec
C30_Function ==
    \A o \in OverrideInputs, fallback \in IntervalInputs :
        /\ intervalForNode(Overridden(1, o), fallback) = C30_Interval(Overridden(1, o), fallback)
        /\ intervalForNode(Overridden(1, o), fallback) > 0
C30_Throttle ==
    (pc = "fanout" /\ idx' = idx + 1 /\ cNodes[idx].Type # "network"
                   /\ cNodes[idx].PingEnabled = "true") =>
        LET node == cNodes[idx]
            interval == C30_Interval(node, cSettings.IntervalSec)
        IN  /\ interval > 0
            /\ intervalForNode(node, cSettings.IntervalSec) = interval
            /\ (probes' = probes /\ results' = results)
                    <=> (/\ node.ID \in DOMAIN cStatus
                         /\ now - cStatus[node.ID].LastChecked < interval)
C30_EffectiveInterval == []C30_Function /\ [][C30_Throttle]_vars
\* under the policy interval 5 a device with the override 2 is probed again less than
\* 5 seconds after its cached result
C30_Witness ==
    /\ pc = "fanout"
    /\ idx > 1
    /\ cSettings.IntervalSec = MinIntervalSec
    /\ cNodes[1].PingIntervalSec = 2
    /\ cNodes[1].ID \in DOMAIN cStatus
    /\ now - cStatus[cNodes[1].ID].LastChecked < MinIntervalSec
    /\ probes # EmptyBag

(***************************************************************************)
(* C31.  The Enabled flag of the policy is true only if the target set has *)
(* a device that is not a network segment and has ping enabled, as the     *)
(* client's hasAnyPingEnabledNode computes it: a target set whose only     *)
(* ping-enabled entries are network segments leaves Enabled false.         *)
(***************************************************************************)
C31_EnabledAgreesWithClient == settings.Enabled => hasAnyPingEnabledNode(nodes)
\* the only ping-enabled entry of the target set is a network segment, and Enabled is true
C31_Witness ==
    /\ settings.Enabled
    /\ nodes # <<>>
    /\ \A k \in 1..Len(nodes) : nodes[k].PingEnabled = "true" => nodes[k].Type = "network"

(***************************************************************************)
(* C32.  The target set and the policy a reachability cycle works from     *)
(* are those of one moment of the poller: a cycle never works from the     *)
(* target set of one UpdateFromBoard call together with the policy         *)
(* interval of another.                                                    *)
(***************************************************************************)
C32_OneSnapshot ==
    pc = "fanout" =>
        \E b \in SnapshotBoards :
            /\ cNodes = b.Nodes
            /\ cSettings.IntervalSec = sanitizeMonitoringSettings(b.Monitoring).IntervalSec
\* a cycle evaluates the one device of the first board under the interval of the second
C32_Witness ==
    /\ pc = "fanout"
    /\ cNodes = <<Pingable(1)>>
    /\ cSettings.IntervalSec = DefaultIntervalSec

(***************************************************************************)
(* C33.  A result cache is modified only by the merge of a cycle.  The     *)
(* step of UpdateFromBoard, UpdateNodes, SetSettings or of the liveness    *)
(* poller's UpdateNodes that stores the caller's data leaves the cache as  *)
(* it was; an entry leaves the cache only in the pruning of a merge; the   *)
(* map a GetStatus call returns holds every entry of the cache, those of   *)
(* removed devices included; and while the reachability loop waits with    *)
(* the policy disabled the cache stays as it is and can be read.           *)
(***************************************************************************)
C33_PingFrame ==
    /\ posting' > posting => status' = status
    /\ status' # status => (mu = "loop" /\ pc \in {"mergeWrite", "mergePrune"})
    /\ \A id \in (DOMAIN status) \ (DOMAIN status') : pc = "mergePrune"
    /\ pc = "disabledWait" => status' = status
C33_SSHFrame ==
    /\ sPosting' > sPosting => sStatus' = sStatus
    /\ sStatus' # sStatus => (sMu = "loop" /\ sPc \in {"mergeWrite", "mergePrune"})
    /\ \A id \in (DOMAIN sStatus) \ (DOMAIN sStatus') : sPc = "mergePrune"
C33_Read ==
    /\ (rpc = "reading" /\ rpc' = "copied") => got' = status
    /\ (sRpc = "reading" /\ sRpc' = "copied") => sGot' = sStatus
C33_Readable == (mgr = "ping" /\ pc = "disabledWait" /\ rpc = "idle") => ENABLED GetStatus
C33_OnlyMergeModifiesCache ==
    [][C33_PingFrame /\ C33_SSHFrame /\ C33_Read]_vars /\ []C33_Readable
\* the device has been removed and the poller disabled, the loop waits in its disabled
\* select, and a caller holds a map with the result of the removed device
C33_Witness ==
    /\ pc = "disabledWait"
    /\ ~settings.Enabled
    /\ posting = 0
    /\ rpc = "copied"
    /\ \E id \in DOMAIN got : id \notin Ids(nodes) /\ id \in DOMAIN status /\ got[id] = status[id]

(***************************************************************************)
(* C34.  A device that is in the target snapshot of a cycle with its       *)
(* probing switched off (ping-enabled not set, or the type "network"; for  *)
(* the liveness poller connect-enabled not set, or the type "network")     *)
(* keeps its cached result as it is through that cycle; and an entry       *)
(* leaves a cache only in the pruning of a merge whose target snapshot     *)
(* lacks its id.                                                           *)
(***************************************************************************)
C34_PingOff(id) ==
    \E k \in 1..Len(cNodes) :
        cNodes[k].ID = id /\ (cNodes[k].PingEnabled # "true" \/ cNodes[k].Type = "network")
C34_SSHOff(id) ==
    \E k \in 1..Len(scNodes) :
        scNodes[k].ID = id /\ (~scNodes[k].ConnectEnabled \/ scNodes[k].Type = "network")
C34_PingStep ==
    \A id \in DOMAIN status :
        /\ C34_PingOff(id) =>
               (id \in DOMAIN status' /\ status'[id] = status[id])
        /\ id \notin DOMAIN status' => (pc = "mergePrune" /\ id \notin Ids(cNodes))
C34_SSHStep ==
    \A id \in DOMAIN sStatus :
        /\ C34_SSHOff(id) =>
               (id \in DOMAIN sStatus' /\ sStatus'[id] = sStatus[id])
        /\ id \notin DOMAIN sStatus' => (sPc = "mergePrune" /\ id \notin Ids(scNodes))
C34_SwitchedOffKeepsResult == [][C34_PingStep /\ C34_SSHStep]_vars
\* the merge of a cycle that passed over both of its devices has ended, and the cache
\* holds the earlier results of both
C34_Witness ==
    /\ pc = "return"
    /\ cNodes = <<SwitchedOff(1), Segment(2)>>
    /\ DOMAIN status = {1, 2}
    /\ status[1].Target = "198.51.100.7"
    /\ status[2].Error = "no ip"

(***************************************************************************)
(* C35: reading the board is a poller mutation.  A GET /api/board that     *)
(* answers 200 hands the content of the board file to UpdateFromBoard:     *)
(* the poller's target set and policy become the ones of the file, and a   *)
(* signalUpdate call is owed.                                              *)
(***************************************************************************)
\* the step of a GET /api/board that answers 200
C35_Get == served.code = "none" /\ served'.code = "200"
\* the poller holds what UpdateFromBoard makes of the board, and a signal is being posted
C35_Pushed(board) ==
    /\ nodes' = board.Nodes
    /\ settings' = [sanitizeMonitoringSettings(board.Monitoring)
                        EXCEPT !.Enabled = anyPingEnabled(board.Nodes)]
    /\ posting' = posting + 1
    /\ unseen'

\* C35 as stated: every successful GET /api/board replaces the poller's target set and
\* policy by the on-disk values and posts a wake signal
C35_EveryGetPushes == [][C35_Get => C35_Pushed(served'.data.board)]_vars

\* C35, amended: a successful GET /api/board whose file content decodes as a board
\* replaces the poller's target set and policy by the on-disk values and posts a wake
\* signal; when the content is JSON that is no board, the GET leaves the poller as it is
C35_GetPushesDecodedBoard ==
    [][C35_Get => IF served'.data.kind = "board"
                  THEN C35_Pushed(served'.data.board)
                  ELSE UNCHANGED pingVars]_vars

\* a GET has answered with the board it made by default and the poller holds that board's
\* target set and policy; the signal of an earlier call is still in the channel and the
\* call made for the GET is about to post its own
C35_Witness ==
    /\ served.code = "200" /\ served.data = BoardBody(DefaultBoard)
    /\ hpc = "idle"
    /\ nodes = DefaultBoard.Nodes
    /\ settings = MonitoringSettings(FALSE, DefaultIntervalSec, FALSE)
    /\ posting = 1
    /\ updateCh = UpdateChCap

(***************************************************************************)
(* C36: POST /api/board keeps the poller and the board file in step.  A    *)
(* request that ends with an error leaves the poller's target set and      *)
(* policy as they were when it began; one that ends with success leaves    *)
(* the ones decoded from the saved body.                                   *)
(***************************************************************************)
C36_Poller == <<nodes, settings>>
C36_Decoded(board) ==
    <<board.Nodes,
      [sanitizeMonitoringSettings(board.Monitoring) EXCEPT !.Enabled = anyPingEnabled(board.Nodes)]>>
\* the step in which a POST /api/board that has decoded its body answers, no other call
\* having changed the poller since
C36_Ends ==
    /\ hpc = "write" /\ hpc' = "done"
    /\ body.kind = "board" /\ C36_Poller = C36_Decoded(body.board)

\* C36 as stated: an answer of success leaves the poller with the saved body's target set
\* and policy, an answer of failure with the ones from before the request
C36_PollerInStepWithFile ==
    [][C36_Ends => IF saved' = "200"
                   THEN C36_Poller' = C36_Decoded(body.board) /\ boardFile' = body
                   ELSE C36_Poller' = atEntry /\ boardFile' = boardFile]_vars

\* the write of the board file failed, the answer is 500, no board file exists, and the
\* poller holds the target set of the body, which it did not hold before the request
C36_Witness ==
    /\ hpc = "done" /\ saved = "500"
    /\ boardFile.kind = "absent"
    /\ body.kind = "board"
    /\ C36_Poller = C36_Decoded(body.board)
    /\ C36_Poller # atEntry

(***************************************************************************)
(* C37: stored device settings are not lost through a concurrent detect.   *)
(* The s.secrets.Set of a GET with detect=1 changes at most LinkSpeedMbps  *)
(* of the stored record, and when a POST and a GET have both answered, the *)
(* connect switch, the host and the credentials that the POST saved are    *)
(* the stored ones.                                                        *)
(***************************************************************************)
C37_Kept(s) == <<s.exists, s.ConnectEnabled, s.OS, s.Host, s.Password>>
\* the step in which a GET that went into the detection answers
C37_DetectStep == gpc = "detect" /\ gpc' = "done"
C37_OnlySpeed == C37_DetectStep => C37_Kept(secrets') = C37_Kept(secrets)
C37_PostKept == (ppc = "done" /\ gpc = "done") => C37_Kept(secrets) = C37_Kept(pLocal)

\* C37: a detecting GET changes at most the link speed of the stored settings, and what a
\* completed POST saved is still stored when the GET has returned
C37_DetectKeepsPostedSettings == [](C37_PostKept) /\ [][C37_OnlySpeed]_vars

\* a POST has answered 200 and a GET that detected a speed has answered after it; the
\* stored host and password are not the ones of the POST
C37_Witness ==
    /\ ppc = "done" /\ gpc = "done"
    /\ gLocal.LinkSpeedMbps = 1000 /\ secrets = gLocal
    /\ secrets.Host # pLocal.Host
    /\ secrets.Password # pLocal.Password

(***************************************************************************)
(* C38: the client-side and the server-side interval sanitizers agree.     *)
(* For every integer intervalSec the policy that SetSettings installs has  *)
(* the intervalSec that the client's sanitizeMonitoringSettings makes of   *)
(* the same input.                                                         *)
(***************************************************************************)
\* the two functions on one input
C38_Agree(s) ==
    sanitizeMonitoringSettings(s).IntervalSec = clientSanitizeMonitoringSettings(s).intervalSec
\* where they differ among the inputs of the model
C38_Differ == {s.IntervalSec : s \in {p \in WidePolicies : ~C38_Agree(p)}}

\* C38: whatever policy a call of SetSettings is given, the interval it stores is the
\* interval the client's sanitizer returns for it
C38_SanitizersAgree ==
    [][\A s \in WidePolicies :
          SetSettings(s) => settings'.IntervalSec = clientSanitizeMonitoringSettings(s).intervalSec]_vars

\* SetSettings has stored the default interval for an input that the client turns into
\* another value (0, a value below 5, or one above 3600)
C38_Witness ==
    /\ posting = 1 /\ nodes = <<>>
    /\ settings.IntervalSec = DefaultIntervalSec
    /\ C38_Differ = {-5, 0, 4, 3601}

(***************************************************************************)
(* C39: the log ring buffer.  After any sequence of Add calls, concurrent  *)
(* ones included, the LogStore holds at most max entries (500 when it was  *)
(* constructed with max <= 0); they are the entries added last, in the     *)
(* order of their adding; and List(limit) returns the last min(limit,      *)
(* length) of them in that order, or all of them when limit <= 0.          *)
(***************************************************************************)
C39_Last(seq, n) == SubSeq(seq, Len(seq) - n + 1, Len(seq))
C39_Bounded ==
    /\ Len(items) <= lmax
    /\ lmax \in {IF max <= 0 THEN 500 ELSE max : max \in LogMaxInputs}
C39_MostRecent == items = C39_Last(added, MathMin(lmax, Len(added)))
\* a call of List has answered in this step
C39_Listed ==
    listed' # listed =>
        LET limit == listed'.limit
        IN  listed'.out = IF limit <= 0 THEN items
                          ELSE C39_Last(items, MathMin(limit, Len(items)))

\* C39: the store never holds more than max entries, holds exactly the latest of all
\* entries added in their order, and every List answers with the tail the limit asks for
C39_RingBuffer == [](C39_Bounded /\ C39_MostRecent) /\ [][C39_Listed]_vars

\* a store of two places has taken four entries from both callers, the fourth built
\* before the third, and List(1) has answered with the one added last
C39_Witness ==
    /\ lmax = 2 /\ Len(added) = 4 /\ Len(items) = 2
    /\ {added[k].by : k \in 1..4} = LogCallers
    /\ added[4].at < added[3].at
    /\ listed = [limit |-> 1, out |-> <<added[4]>>]

====
